---- MODULE Spec2Model ----
(***************************************************************************)
(* k8s-deployer: bootstrap-and-reconciliation orchestrator.                *)
(*                                                                         *)
(* The module holds one state machine per entry point of the orchestrator: *)
(*   SpecRetry   SSHClient.ExecuteWithRetry        (pkg/executor/ssh.go)    *)
(*   SpecUpdate  UpdateCluster                     (pkg/cluster/update.go)  *)
(*   SpecPrepare checkSSHConnections, prepareAllNodes and joinWorkers,     *)
(*               task by task                      (pkg/cluster/deploy.go)  *)
(*   SpecDeploy  DeployCluster                     (pkg/cluster/deploy.go)  *)
(*   SpecCilium  InstallCilium from verifyCilium on (pkg/cluster/cilium.go) *)
(*   SpecStore   saveConfigToConfigMap and UpdateClusterConfigMap          *)
(*                                          (pkg/cluster/config_store.go)  *)
(*   SpecConnect NewSSHClientWithPassword, NewSSHClientSmart and           *)
(*               SSHClient.Reconnect               (pkg/executor/ssh.go)    *)
(*   SpecHost    LoadFromFile, processNodeHostnames (pkg/config/loader.go)  *)
(*   SpecNodeOps AddNode, RemoveNode, PrepareNode, UninstallMetalLB,       *)
(*               SetupHostsFile, SetupSSHKeys, SetupHA                     *)
(*                            (pkg/cluster/gpu.go, pkg/cluster/prepare.go)  *)
(* SpecPrepareFair and SpecCiliumFair are SpecPrepare and SpecCilium under *)
(* weak fairness of their next-state action.                               *)
(* Each specification drives its own variables and leaves the variables of *)
(* the other entry points at their idle values.                            *)
(* What the maintenance calls of SpecNodeOps leave on a cluster between    *)
(* two runs (nodes without the deployer label, a removed node, no metallb  *)
(* release) is among the initial states of SpecUpdate.                     *)
(***************************************************************************)
EXTENDS Integers, Sequences, FiniteSets, TLC

(***************************************************************************)
(* Bounds of the model.                                                    *)
(***************************************************************************)
MaxRetries == 3
MaxPrepNodes == 3
MaxMasters == 3
MaxWorkers == 2
MaxAgents == 3

\* the most nodes of a fleet, masters and workers together
MaxFleet == 3

\* the most maintenance calls made on one cluster
MaxOps == 2

(***************************************************************************)
(* State of one ExecuteWithRetry call.                                     *)
(***************************************************************************)
VARIABLES
    rPc,          \* position in ExecuteWithRetry
    retries,      \* the retries argument
    rI,           \* the loop counter i
    lastErr,      \* lastErr
    rResult,      \* "none", "ok" or "error": what the call returned
    execCount,    \* number of c.Execute(command) calls made by this call
    reconnects,   \* number of c.Reconnect() calls made by this call
    sleeps,       \* number of 2s back-off sleeps
    plainFailures,\* Execute calls that ended in a plain nonzero exit
    otherFailures \* Execute calls that ended in any other error

retryVars == <<rPc, retries, rI, lastErr, rResult, execCount, reconnects, sleeps,
               plainFailures, otherFailures>>

(***************************************************************************)
(* The cluster-resident state the tool reads and writes through kubectl    *)
(* and helm.                                                               *)
(***************************************************************************)
VARIABLES
    labelled,     \* the nodes that carry the label k8s-deployer.stormdragon.io/managed=true
    record,       \* data of the ConfigMap k8s-deployer-config: NoCfg when absent
    secret,       \* the Secret k8s-deployer-secret: NoSecret when absent
    mlbRelease    \* TRUE when the helm release metallb exists

clusterVars == <<labelled, record, secret, mlbRelease>>

(***************************************************************************)
(* State of one UpdateCluster run.                                         *)
(***************************************************************************)
VARIABLES
    uPc,          \* position in UpdateCluster
    newCfg,       \* the argument newCfg
    onlyBGP,      \* the argument onlyBGP
    autoConfirm,  \* the argument autoConfirm
    answer,       \* what ui.WaitForConfirmation returned: "none" while not asked
    updateErr,    \* the local updateErr: "unset", then "nil" or "error"
    ownerOk,      \* "unknown", then "yes" when verifyDeployerManaged returned nil, else "no"
    oldCfg,       \* the local oldCfg: NoCfg when nil
    changes,      \* the local changes
    applyIdx,     \* index of the change updateFull is at
    applyCalls,   \* number of InstallMetalLB calls of this run
    uLog,         \* the state-changing commands this run executed, in order
    uResult       \* "running", "ok" (nil) or the error returned

updateVars == <<uPc, newCfg, onlyBGP, autoConfirm, answer, updateErr,
                ownerOk, oldCfg, changes, applyIdx,
                applyCalls, uLog, uResult>>

(***************************************************************************)
(* State of one fan-out batch (checkSSHConnections, prepareAllNodes or     *)
(* joinWorkers), task by task.                                             *)
(***************************************************************************)
VARIABLES
    pOp,          \* the batch function called
    pPc,          \* position of the batch: "idle", "spawn", "wait", "returned"
    pGpu,         \* node.GPU of the nodes of the batch, in list order
    pTask,        \* per node, the goroutine: [status, stage]
    pCmds,        \* per node, the commands executed on it
    errChan,      \* the buffered channel errChan: the nodes whose error was sent
    pErr          \* the returned error: 0 for nil, else the node it names

prepVars == <<pOp, pPc, pGpu, pTask, pCmds, errChan, pErr>>

(***************************************************************************)
(* State of one DeployCluster run and of the fleet it works on.            *)
(***************************************************************************)
VARIABLES
    dPc,           \* position of DeployCluster
    dAuto,         \* the autoConfirm argument
    dCfg,          \* the cfg argument, without its node list
    haVIP,         \* cfg.Spec.HA.VIP
    nMasters,      \* cfg.Spec.Nodes: the masters are nodes 1..nMasters,
    nWorkers,      \* the workers nodes nMasters+1..nMasters+nWorkers
    dGpu,          \* the nodes with GPU: true
    phase,         \* how far each phase of the run got
    adminConf,     \* /etc/kubernetes/admin.conf exists on the first master
    kubeletConf,   \* the nodes where /etc/kubernetes/kubelet.conf exists
    mutated,       \* the nodes a state-changing command was executed on in this run
    tokensCreated, \* number of `kubeadm token create` that succeeded in this run
    joinInfo,      \* the *kubeadm.JoinCommand returned by initFirstMaster
    certUploads,   \* number of `kubeadm init phase upload-certs` executed in this run
    joinsWith,     \* the join commands executed: [node, cmd]
    nState,        \* per node, its goroutine in checkSSHConnections, then prepareAllNodes
    mState,        \* per other master, its join in joinMasters
    wState,        \* per worker, its goroutine in joinWorkers
    wLog,          \* per worker, the commands that goroutine executed, with outcome
    client,        \* the *SSHClient of deploy.go:100: "none", "open", "nil"
    gpuLabelled,   \* the GPU nodes that LabelGPUNode tagged
    gpuTried,      \* the GPU nodes LabelGPUNode was called for
    initEndpoint,  \* controlPlaneEndpoint of the generated kubeadm configuration
    k8sServiceHost, \* k8sServiceHost of the generated Cilium values
    ciliumValues,  \* the values deployCiliumOffline installed Cilium with
    dResult        \* what DeployCluster returned

dFleet == <<dAuto, dCfg, haVIP, nMasters, nWorkers, dGpu>>
dNodeState == <<adminConf, kubeletConf, mutated>>
dCred == <<tokensCreated, joinInfo, certUploads, joinsWith>>
dTasks == <<nState, mState, wState, wLog>>
dGpuState == <<gpuLabelled, gpuTried>>
dEndpoints == <<initEndpoint, k8sServiceHost, ciliumValues>>

deployVars == <<dPc, dFleet, phase, dNodeState, dCred, dTasks, client,
                dGpuState, dEndpoints, dResult>>

(***************************************************************************)
(* State of one InstallCilium call from verifyCilium on.                   *)
(***************************************************************************)
VARIABLES
    vPc,           \* position: "idle", in verifyCilium "poll", "proxy", "pods",
                   \* "verified" at its return, in
                   \* deployDefaultGateway "gwclass", "gwapply", "gwaddress", "done"
    vI,            \* the loop variable i
    vObs,          \* the last answer to the DaemonSet query: [ok, ready, desired]
    vProxy,        \* the answer to the kube-proxy query: "unknown", "present",
                   \* "not found", "query failed"
    vResult,       \* "running", "nil" or the error returned
    vGateway,      \* cfg.Spec.GatewayAPI.Enabled of the InstallCilium call
    gI,            \* the loop variable i of the poll deployDefaultGateway is in
    probes,        \* per poll, the queries it issued
    vWarning,      \* why InstallCilium warned about the default gateway: "none" or the cause
    vInstall       \* what InstallCilium returned: "running", "nil", "error"

ciliumVars == <<vPc, vI, vObs, vProxy, vResult, vGateway, gI, probes, vWarning, vInstall>>

(***************************************************************************)
(* State of one write of the persisted record, by either of its writers.   *)
(***************************************************************************)
VARIABLES
    sPc,           \* "idle", "write", then "written" or "failed"
    sCfg,          \* the argument cfg, as it was when the writer was called
    sWriter,       \* "saveConfigToConfigMap" or "UpdateClusterConfigMap"
    sAfter         \* the caller's *cfg when the writer has returned: NoCfg before

storeVars == <<sPc, sCfg, sWriter, sAfter>>

(***************************************************************************)
(* State of one call of a constructor of SSHClient.                        *)
(***************************************************************************)
VARIABLES
    cPc,           \* "idle", "call", "try" (NewSSHClientSmart at strategy cI), "done"
    cCtor,         \* "NewSSHClientWithPassword" or "NewSSHClientSmart"
    cArgs,         \* the arguments [user, keyFile, password]
    cEnv,          \* the key files of this machine and what the host accepts
    cI,            \* NewSSHClientSmart: index of the strategy it is at
    cTried,        \* the strategies that dialled, in order
    cResult,       \* "none", "client" or the error returned
    cClient,       \* the fields User, keyFile, password of the SSHClient returned
    cDials,        \* the NewSSHClientWithPassword calls of the last Reconnect
    cReconn        \* "none", or what the last Reconnect returned: "nil" or "error"

connectVars == <<cPc, cCtor, cArgs, cEnv, cI, cTried, cResult, cClient, cDials,
                 cReconn>>

(***************************************************************************)
(* State of one processNodeHostnames call.                                 *)
(***************************************************************************)
VARIABLES
    hPc,           \* "idle", "validate", "loop", then "returned" or "rejected"
    hEntry,        \* the function called: "LoadFromFile"
    clusterName,   \* config.Metadata.Name
    hIn,           \* config.Spec.Nodes as loaded: [role, gpu, hostname] per node
    hNodes,        \* config.Spec.Nodes as the loop rewrites it
    hI,            \* the loop variable i, counted from 1
    hCount         \* masterCount, workerCount and gpuWorkerCount

hostVars == <<hPc, hEntry, clusterName, hIn, hNodes, hI, hCount>>

(***************************************************************************)
(* State of the maintenance calls made on a deployed cluster, one at a     *)
(* time: AddNode, RemoveNode, PrepareNode, UninstallMetalLB.               *)
(***************************************************************************)
VARIABLES
    oPc,           \* "idle", the position in the function called, "returned"
    oOp,           \* the function called: "none" before the first call
    oNode,         \* the node argument: 0 when the function has none
    oStage,        \* prepareNodeInternal: the stage it is at
    oJoin,         \* AddNode: its local joinInfo
    oCalls,        \* number of calls made
    oResult        \* "none", "running", "nil" or the error returned

opVars == <<oPc, oOp, oNode, oStage, oJoin, oCalls, oResult>>

vars == <<retryVars, clusterVars, updateVars, prepVars, deployVars, ciliumVars, storeVars,
          connectVars, hostVars, opVars>>

\* what the steps of one entry point leave alone
RetryFrame ==
    UNCHANGED <<clusterVars, updateVars, prepVars, deployVars, ciliumVars, storeVars,
                connectVars, hostVars, opVars>>
UpdateFrame == UNCHANGED <<retryVars, prepVars, deployVars, ciliumVars, storeVars,
                connectVars, hostVars, opVars>>
PrepFrame ==
    UNCHANGED <<retryVars, clusterVars, updateVars, deployVars, ciliumVars, storeVars,
                connectVars, hostVars, opVars>>
DeployFrame == UNCHANGED <<retryVars, updateVars, prepVars, ciliumVars, storeVars,
                connectVars, hostVars, opVars>>
CiliumFrame ==
    UNCHANGED <<retryVars, clusterVars, updateVars, prepVars, deployVars, storeVars,
                connectVars, hostVars, opVars>>
StoreFrame ==
    UNCHANGED <<retryVars, updateVars, prepVars, deployVars, ciliumVars, connectVars,
                hostVars, opVars>>
ConnectFrame ==
    UNCHANGED <<retryVars, clusterVars, updateVars, prepVars, deployVars, ciliumVars,
                storeVars, hostVars, opVars>>
HostFrame ==
    UNCHANGED <<retryVars, clusterVars, updateVars, prepVars, deployVars, ciliumVars,
                storeVars, connectVars, opVars>>
NodeOpsFrame ==
    UNCHANGED <<retryVars, updateVars, prepVars, ciliumVars, storeVars, connectVars,
                hostVars>>

(***************************************************************************)
(* Errors of SSHClient.Execute.  The text of an error is                   *)
(*   "创建 SSH session 失败: <err>"              (transport)                *)
(*   "命令执行失败: <err>\n标准错误: <stderr>"    (remote exit, or transport) *)
(* and ExecuteWithRetry looks only at the text.  An error is modelled by   *)
(* its cause and by the phrase of the retry test that its text contains.   *)
(***************************************************************************)
NoErr == [cause |-> "none", phrase |-> "none"]

ConnectionPhrases == {"connection", "broken pipe", "EOF"}

ExecErrors ==
    [cause : {"exit", "transport"}, phrase : ConnectionPhrases \cup {"none"}]

\* ssh.go:357-359: the test ExecuteWithRetry applies to err.Error()
IsConnectionError(e) == e.phrase \in ConnectionPhrases

\* A legitimate nonzero exit of the remote command whose captured text holds
\* none of the phrases.
PlainExit == [cause |-> "exit", phrase |-> "none"]

IdleRetry ==
    /\ rPc = "idle"
    /\ retries = 0
    /\ rI = 0
    /\ lastErr = NoErr
    /\ rResult = "none"
    /\ execCount = 0
    /\ reconnects = 0
    /\ sleeps = 0
    /\ plainFailures = 0
    /\ otherFailures = 0

\* ExecuteWithRetry(command, n): entry, ssh.go:345-346
RetryCall ==
    /\ RetryFrame
    /\ rPc = "idle"
    /\ \E n \in 0..MaxRetries : retries' = n
    /\ rI' = 0
    /\ lastErr' = NoErr
    /\ rPc' = "loop"
    /\ UNCHANGED <<rResult, execCount, reconnects, sleeps, plainFailures, otherFailures>>

\* the loop test i < retries (ssh.go:348) and the return after the loop (378)
RetryLoop ==
    /\ RetryFrame
    /\ rPc = "loop"
    /\ IF rI < retries
          THEN /\ rPc' = "exec"
               /\ UNCHANGED rResult
          ELSE /\ rPc' = "done"
               /\ rResult' = "error"
    /\ UNCHANGED <<retries, rI, lastErr, execCount, reconnects, sleeps, plainFailures, otherFailures>>

\* Where the loop body goes after the first Execute of an iteration failed
\* with e (ssh.go:356-375).
AfterFirstFailure(e) == IF IsConnectionError(e) THEN "reconnect" ELSE "backoff"

\* output, err := c.Execute(command)  (ssh.go:349-354)
RetryExecute ==
    /\ RetryFrame
    /\ rPc = "exec"
    /\ execCount' = execCount + 1
    /\ \/ /\ rPc' = "done"
          /\ rResult' = "ok"
          /\ UNCHANGED <<lastErr, plainFailures, otherFailures>>
       \/ \E e \in ExecErrors :
             /\ lastErr' = e
             /\ plainFailures' = plainFailures + (IF e = PlainExit THEN 1 ELSE 0)
             /\ otherFailures' = otherFailures + (IF e = PlainExit THEN 0 ELSE 1)
             /\ rPc' = AfterFirstFailure(e)
             /\ UNCHANGED rResult
    /\ UNCHANGED <<retries, rI, reconnects, sleeps>>

\* c.Reconnect() (ssh.go:361-363): on failure, continue (i++ and loop test)
RetryReconnect ==
    /\ RetryFrame
    /\ rPc = "reconnect"
    /\ reconnects' = reconnects + 1
    /\ \/ /\ rPc' = "loop"          \* reconnectErr != nil: continue
          /\ rI' = rI + 1
       \/ /\ rPc' = "exec2"         \* reconnected
          /\ UNCHANGED rI
    /\ UNCHANGED <<retries, lastErr, rResult, execCount, sleeps, plainFailures, otherFailures>>

\* the second Execute of the iteration, after a reconnect (ssh.go:365-369)
RetryExecuteAgain ==
    /\ RetryFrame
    /\ rPc = "exec2"
    /\ execCount' = execCount + 1
    /\ \/ /\ rPc' = "done"
          /\ rResult' = "ok"
          /\ UNCHANGED <<lastErr, plainFailures, otherFailures>>
       \/ \E e \in ExecErrors :
             /\ lastErr' = e
             /\ plainFailures' = plainFailures + (IF e = PlainExit THEN 1 ELSE 0)
             /\ otherFailures' = otherFailures + (IF e = PlainExit THEN 0 ELSE 1)
             /\ rPc' = "backoff"
             /\ UNCHANGED rResult
    /\ UNCHANGED <<retries, rI, reconnects, sleeps>>

\* if i < retries-1 { time.Sleep(2s) }, then i++ (ssh.go:373-375, 348)
RetryBackoff ==
    /\ RetryFrame
    /\ rPc = "backoff"
    /\ sleeps' = IF rI < retries - 1 THEN sleeps + 1 ELSE sleeps
    /\ rI' = rI + 1
    /\ rPc' = "loop"
    /\ UNCHANGED <<retries, lastErr, rResult, execCount, reconnects, plainFailures, otherFailures>>


(***************************************************************************)
(* ClusterConfig (pkg/config/types.go), reduced to the fields the          *)
(* orchestrator reads.  Strings of the source are strings here, lists are  *)
(* sequences.                                                              *)
(***************************************************************************)
Names == {"prod", "lab"}
PodSubnets == {"10.244.0.0/16", "10.100.0.0/16"}
ServiceSubnets == {"10.96.0.0/12", "10.200.0.0/16"}
Versions == {"v1.34.2", "v1.35.0"}
PeerAddrs == {"192.168.1.1"}
IPPools == {"10.0.0.0/24"}
HarborUsers == {"", "admin"}

MaxPeers == 1
MaxIPs == 1

SeqsUpTo(S, n) == UNION {[1..k -> S] : k \in 0..n}

PeerLists == SeqsUpTo(PeerAddrs, MaxPeers)
IPLists == SeqsUpTo(IPPools, MaxIPs)

\* a nil *config.ClusterConfig
NoCfg == [nil |-> TRUE]

BaseCfg ==
    [name |-> "prod", podSubnet |-> "10.244.0.0/16", serviceSubnet |-> "10.96.0.0/12",
     version |-> "v1.34.2", bgpEnabled |-> FALSE, localASN |-> 65001,
     peers |-> <<"192.168.1.1">>, lbIPs |-> <<"10.0.0.0/24">>, lbMode |-> "",
     harborUser |-> "", harborPass |-> "", lbProvider |-> "", haEnabled |-> FALSE,
     gatewayEnabled |-> FALSE, sshPasswords |-> <<"", "">>]

\* the specs an operator may hand to `cluster update`
NewCfgs ==
    {[BaseCfg EXCEPT !.name = n, !.podSubnet = p, !.serviceSubnet = sv, !.version = v,
                     !.bgpEnabled = b, !.localASN = a, !.peers = ps, !.lbIPs = ips,
                     !.harborUser = hu, !.harborPass = IF hu = "" THEN "" ELSE "secret",
                     !.sshPasswords = IF hu = "" THEN <<"", "">> ELSE <<"", "rootpw">>] :
        n \in Names, p \in PodSubnets, sv \in ServiceSubnets, v \in Versions,
        b \in BOOLEAN, a \in {65001}, ps \in PeerLists, ips \in IPLists, hu \in HarborUsers}

\* the specs a cluster may have been created or last updated with
DeployedCfgs == {[BaseCfg EXCEPT !.bgpEnabled = b] : b \in BOOLEAN}

(***************************************************************************)
(* config.ValidateImmutableFields: the list of violated fields, in the     *)
(* order the source appends them; the error is non-nil iff it is not empty.*)
(***************************************************************************)
ImmutableCheck(field, differs) == IF differs THEN <<field>> ELSE <<>>

\* a validation that reports the cluster name and the version only
ValidateImmutableFields_NameAndVersion(old, new) ==
       ImmutableCheck("metadata.name", old.name # new.name)
    \o ImmutableCheck("spec.version", old.version # new.version)

ValidateImmutableFields(old, new) ==
       ImmutableCheck("metadata.name", old.name # new.name)
    \o ImmutableCheck("spec.networking.podSubnet", old.podSubnet # new.podSubnet)
    \o ImmutableCheck("spec.networking.serviceSubnet", old.serviceSubnet # new.serviceSubnet)
    \o ImmutableCheck("spec.version", old.version # new.version)

(***************************************************************************)
(* ConfigChange and the diff (update.go:125-276).                          *)
(***************************************************************************)
Change(t, d, o, n, c, r) ==
    [type |-> t, description |-> d, oldValue |-> o, newValue |-> n,
     component |-> c, restart |-> r]

\* update.go:130-166 and 172-208: the changes listed when BGP gets enabled
BGPEnableChanges(new, was) ==
       <<Change("BGP", "enable BGP control plane", was, "enabled", "Cilium", TRUE),
         Change("BGP", "set BGP ASN", "", ToString(new.localASN), "Cilium", FALSE)>>
    \o [i \in 1..Len(new.peers) |->
          Change("BGP", "add BGP peer", "", new.peers[i], "BGP Peering", FALSE)]
    \o [i \in 1..Len(new.lbIPs) |->
          Change("BGP", "add LoadBalancer IP pool", "", new.lbIPs[i], "IP Pool", FALSE)]

\* update.go:209-245: BGP enabled before and after
BGPFieldChanges(old, new) ==
       (IF old.localASN # new.localASN
           THEN <<Change("BGP", "change BGP ASN", ToString(old.localASN),
                         ToString(new.localASN), "BGP Peering", FALSE)>>
           ELSE <<>>)
    \o (IF Len(old.peers) # Len(new.peers)
           THEN <<Change("BGP", "update BGP peers", ToString(Len(old.peers)),
                         ToString(Len(new.peers)), "BGP Peering", FALSE)>>
           ELSE <<>>)
    \o (IF Len(old.lbIPs) # Len(new.lbIPs)
           THEN <<Change("BGP", "update LoadBalancer IP pool", ToString(Len(old.lbIPs)),
                         ToString(Len(new.lbIPs)), "IP Pool", FALSE)>>
           ELSE <<>>)

detectBGPChanges(old, new) ==
    IF old = NoCfg
       THEN IF new.bgpEnabled THEN BGPEnableChanges(new, "unconfigured") ELSE <<>>
    ELSE IF ~old.bgpEnabled /\ new.bgpEnabled
       THEN BGPEnableChanges(new, "disabled")
    ELSE IF old.bgpEnabled /\ new.bgpEnabled
       THEN BGPFieldChanges(old, new)
    ELSE <<>>

detectAllChanges(old, new) ==
    IF old = NoCfg
       THEN <<>>
       ELSE    detectBGPChanges(old, new)
            \o (IF old.harborUser # new.harborUser \/ old.harborPass # new.harborPass
                   THEN <<Change("Harbor", "update Harbor credentials", "", "",
                                 "Containerd", FALSE)>>
                   ELSE <<>>)

(***************************************************************************)
(* The cluster-resident state UpdateCluster reads and writes through the   *)
(* local kubectl, and the state of one UpdateCluster run.                  *)
(***************************************************************************)
ClusterNodes == {1, 2}

NoSecret == [nil |-> TRUE]

IdleCluster ==
    /\ labelled = {}
    /\ record = NoCfg
    /\ secret = NoSecret
    /\ mlbRelease = FALSE

IdleUpdate ==
    /\ uPc = "idle"
    /\ newCfg = NoCfg
    /\ onlyBGP = FALSE
    /\ autoConfirm = FALSE
    /\ answer = "none"
    /\ updateErr = "unset"
    /\ ownerOk = "unknown"
    /\ oldCfg = NoCfg
    /\ changes = <<>>
    /\ applyIdx = 0
    /\ applyCalls = 0
    /\ uLog = <<>>
    /\ uResult = "running"

\* a copy that blanks the registry credentials only
Sanitize_KeepSSHPasswords(cfg) == [cfg EXCEPT !.harborUser = "", !.harborPass = ""]

\* saveConfigToConfigMap (config_store.go:75-80) and UpdateClusterConfigMap
\* (config_store.go:235-240): the copy that is serialized has the registry
\* user and password and the SSH password of every node blanked
Sanitize(cfg) ==
    [cfg EXCEPT !.harborUser = "", !.harborPass = "",
                !.sshPasswords = [i \in DOMAIN @ |-> ""]]

\* config_store.go:75-80 and 235-240: cfgCopy := *cfg copies the struct, so
\* Spec.Harbor of the copy is its own and Spec.Nodes of the copy is a slice
\* over the caller's array; the assignments to cfgCopy.Spec.Nodes[i].SSH.Password
\* are made in the caller's nodes, before any step that can fail
CallerConfigAfterCopy(cfg) == [cfg EXCEPT !.sshPasswords = [i \in DOMAIN @ |-> ""]]

\* saveConfigToConfigMap (config_store.go:73-124): the record after the call
saveConfigToConfigMap(cfg, ok, rec) == IF ok THEN Sanitize(cfg) ELSE rec

\* The states a cluster can be in when `cluster update` runs: created by
\* DeployCluster (SaveClusterConfig labels the nodes one by one and warns on
\* failure, writes the ConfigMap, and the Secret when credentials are set),
\* or a cluster the tool did not create.
\* saveSensitiveToSecret (config_store.go:127-166) runs after the ConfigMap
\* was written and skips an empty registry account: a cluster with a record
\* has no Secret, or the Secret of the account it was created with
DeployedSecrets(rec) ==
    IF rec = NoCfg THEN {NoSecret}
    ELSE {NoSecret, [user |-> "admin", pass |-> "secret"]}

InitUpdate ==
    /\ labelled \in SUBSET ClusterNodes
    /\ record \in {NoCfg} \cup {Sanitize(c) : c \in DeployedCfgs}
    /\ secret \in DeployedSecrets(record)
    /\ mlbRelease \in BOOLEAN
    /\ uPc = "verify"
    /\ newCfg \in NewCfgs
    /\ onlyBGP \in BOOLEAN
    /\ autoConfirm \in BOOLEAN
    /\ answer = "none"
    /\ updateErr = "unset"
    /\ ownerOk = "unknown"
    /\ oldCfg = NoCfg
    /\ changes = <<>>
    /\ applyIdx = 0
    /\ applyCalls = 0
    /\ uLog = <<>>
    /\ uResult = "running"

UpdReturn(r) ==
    /\ uPc' = "done"
    /\ uResult' = r

\* verifyClusterExistsLocal (update.go:30-32, 362-365): kubectl cluster-info
UpdVerifyCluster ==
    /\ UpdateFrame
    /\ uPc = "verify"
    /\ \/ /\ UpdReturn("error: cluster verification failed")
       \/ /\ uPc' = "load"
          /\ UNCHANGED uResult
    /\ UNCHANGED <<labelled, record, secret, mlbRelease, newCfg, onlyBGP,
                   autoConfirm, answer, updateErr, ownerOk, oldCfg, changes, applyIdx, applyCalls, uLog>>

\* verifyDeployerManaged without the test of the output
verifyDeployerManaged_NoEmptyTest(queryOk, output) == queryOk

\* verifyDeployerManaged (config_store.go:196-213): `output` is what
\* kubectl get nodes -l <label>=true --no-headers printed, one line per node
\* that carries the label; queryOk is err == nil of that command.
verifyDeployerManaged(queryOk, output) == queryOk /\ output # {}

\* The two reads of loadSensitiveInfo, `kubectl get secret ... | base64 -d`
\* for harbor-username and for harbor-password: TRUE when Execute returned
\* err == nil, FALSE when it returned an error (the command or the decoding
\* failed), whatever text came with the error.
SecretReads == [user : BOOLEAN, pass : BOOLEAN]

\* every read of the Secret succeeds
AllSecretReadsOk == [user |-> TRUE, pass |-> TRUE]

\* what a read answers with err == nil: the field of the Secret, and the
\* empty string when there is no Secret
SecretField(sec, f) == IF sec = NoSecret THEN "" ELSE sec[f]

\* loadSensitiveInfo (config_store.go:216-230): a field of cfg is replaced
\* only under err == nil && value != ""
loadSensitiveInfo(cfg, sec, reads) ==
    [cfg EXCEPT
       !.harborUser = IF reads.user /\ SecretField(sec, "user") # ""
                         THEN SecretField(sec, "user") ELSE @,
       !.harborPass = IF reads.pass /\ SecretField(sec, "pass") # ""
                         THEN SecretField(sec, "pass") ELSE @]

\* what `kubectl get configmap k8s-deployer-config -o jsonpath=...` and
\* yaml.Unmarshal of its output can do on a ConfigMap that exists
\* (config_store.go:176-187)
ConfigMapReads == {"ok", "get failed", "parse failed"}

\* LoadClusterConfig (config_store.go:169-193): NoCfg stands for (nil, err);
\* the get fails on an absent ConfigMap, and on a present one when the
\* command fails; the output may fail to parse
LoadClusterConfig(queryOk, read, reads, lab, rec, sec) ==
    IF ~verifyDeployerManaged(queryOk, lab) THEN NoCfg
    ELSE IF rec = NoCfg \/ read = "get failed" THEN NoCfg
    ELSE IF read = "parse failed" THEN NoCfg
    ELSE loadSensitiveInfo(rec, sec, reads)

\* update.go:35-43: a failed load is downgraded to a warning and oldCfg = nil
UpdLoad ==
    /\ UpdateFrame
    /\ uPc = "load"
    /\ \E queryOk \in BOOLEAN, read \in ConfigMapReads, reads \in SecretReads :
          /\ ownerOk' = IF verifyDeployerManaged(queryOk, labelled) THEN "yes" ELSE "no"
          /\ oldCfg' = LoadClusterConfig(queryOk, read, reads, labelled, record, secret)
    /\ uPc' = "validate"
    /\ UNCHANGED <<labelled, record, secret, mlbRelease, newCfg, onlyBGP,
                   autoConfirm, answer, updateErr, changes, applyIdx, applyCalls, uLog, uResult>>

\* update.go:45-60
UpdValidate ==
    /\ UpdateFrame
    /\ uPc = "validate"
    /\ IF oldCfg # NoCfg /\ ValidateImmutableFields(oldCfg, newCfg) # <<>>
          THEN UpdReturn("error: immutable fields")
          ELSE /\ uPc' = "detect"
               /\ UNCHANGED uResult
    /\ UNCHANGED <<labelled, record, secret, mlbRelease, newCfg, onlyBGP,
                   autoConfirm, answer, updateErr, ownerOk, oldCfg, changes, applyIdx, applyCalls, uLog>>

\* update.go:62-75
UpdDetect ==
    /\ UpdateFrame
    /\ uPc = "detect"
    /\ changes' = IF onlyBGP THEN detectBGPChanges(oldCfg, newCfg)
                             ELSE detectAllChanges(oldCfg, newCfg)
    /\ IF changes' = <<>>
          THEN UpdReturn("ok")
          ELSE /\ uPc' = "confirm"
               /\ UNCHANGED uResult
    /\ UNCHANGED <<labelled, record, secret, mlbRelease, newCfg, onlyBGP,
                   autoConfirm, answer, updateErr, ownerOk, oldCfg, applyIdx, applyCalls, uLog>>

\* a confirmation step that goes on to the apply whatever was answered
AfterConfirmation_ApplyAnyway(auto, ans) == "apply"

\* update.go:81-97: with autoConfirm the question is skipped; otherwise only
\* an affirmative answer goes on, a refusal returns nil
AfterConfirmation(auto, ans) == IF auto \/ ans = "yes" THEN "apply" ELSE "return nil"

\* update.go:77-97
UpdConfirm ==
    /\ UpdateFrame
    /\ uPc = "confirm"
    /\ \E ans \in (IF autoConfirm THEN {"none"} ELSE {"yes", "no"}) :
          /\ answer' = ans
          /\ IF AfterConfirmation(autoConfirm, ans) = "apply"
                THEN /\ uPc' = "apply"
                     /\ UNCHANGED uResult
                ELSE UpdReturn("ok")           \* "更新已取消", return nil
    /\ applyIdx' = 1
    /\ UNCHANGED <<labelled, record, secret, mlbRelease, newCfg, onlyBGP,
                   autoConfirm, updateErr, ownerOk, oldCfg, changes, applyCalls, uLog>>

(***************************************************************************)
(* The load-balancer apply routine.  A routine returns err (TRUE for a     *)
(* non-nil error) and cmds, the state-changing commands it executed on the *)
(* cluster, in order; a command that fails was still executed.  failAt is  *)
(* the command that the environment makes fail in this call.               *)
(***************************************************************************)
MetalLBFailPoints == {"none", "chart", "helm", "wait", "pool", "peer", "adv", "verify"}

Ran(e, c) == [err |-> e, cmds |-> c]

\* a; if err == nil { b }
Then(a, b) == IF a.err THEN a ELSE Ran(b.err, a.cmds \o b.cmds)

\* deployMetalLBHelm (part_003:52-86): without the local chart package it
\* returns before any command (60-63); helm install refuses a release name
\* that is still in use
deployMetalLBHelm(release, failAt) ==
    IF failAt = "chart"
       THEN Ran(TRUE, <<>>)
       ELSE Ran(release \/ failAt = "helm", <<"helm install metallb">>)

\* waitForMetalLB (part_003:89-112): two rollout status probes
waitForMetalLB(failAt) == Ran(failAt = "wait", <<>>)

\* createMetalLBIPPool (part_003:159-185)
createMetalLBIPPool(cfg, failAt) ==
    IF Len(cfg.lbIPs) = 0
       THEN Ran(TRUE, <<>>)
       ELSE Ran(failAt = "pool", <<"apply IPAddressPool">>)

\* createMetalLBBGPPeers (part_005:59-79): the first apply is the one that fails
createMetalLBBGPPeers(cfg, failAt) ==
    IF failAt = "peer" /\ Len(cfg.peers) > 0
       THEN Ran(TRUE, <<"apply BGPPeer">>)
       ELSE Ran(FALSE, [i \in 1..Len(cfg.peers) |-> "apply BGPPeer"])

\* createMetalLBBGPAdvertisement (part_005:82-99)
createMetalLBBGPAdvertisement(failAt) ==
    Ran(failAt = "adv", <<"apply BGPAdvertisement">>)

\* verifyMetalLBBGP (part_005:124-141): three read-only probes
verifyMetalLBBGP(failAt) == Ran(failAt = "verify", <<>>)

\* a configuration that creates the peers before the pool
ConfigureMetalLBBGP_PeersFirst(cfg, failAt) ==
    Then(createMetalLBBGPPeers(cfg, failAt),
    Then(createMetalLBIPPool(cfg, failAt),
    Then(createMetalLBBGPAdvertisement(failAt),
         verifyMetalLBBGP(failAt))))

\* ConfigureMetalLBBGP (part_005:26-56)
ConfigureMetalLBBGP(cfg, failAt) ==
    Then(createMetalLBIPPool(cfg, failAt),
    Then(createMetalLBBGPPeers(cfg, failAt),
    Then(createMetalLBBGPAdvertisement(failAt),
         verifyMetalLBBGP(failAt))))

\* configureMetalLBL2 (part_003:128-156)
configureMetalLBL2(cfg, failAt) ==
    Then(createMetalLBIPPool(cfg, failAt),
         Ran(failAt = "adv", <<"apply L2Advertisement">>))

\* part_003:18: the test that skips the whole routine
MetalLBWanted(cfg) == cfg.bgpEnabled \/ cfg.lbMode = "l2"

\* InstallMetalLB (part_003:14-49)
InstallMetalLB(cfg, release, failAt) ==
    IF ~MetalLBWanted(cfg)
       THEN Ran(FALSE, <<>>)
       ELSE Then(deployMetalLBHelm(release, failAt),
            Then(waitForMetalLB(failAt),
                 IF cfg.bgpEnabled THEN ConfigureMetalLBBGP(cfg, failAt)
                                   ELSE configureMetalLBL2(cfg, failAt)))

\* the helm release after InstallMetalLB ran
ReleaseAfter(cfg, release, failAt) ==
    release \/ (MetalLBWanted(cfg) /\ failAt \notin {"chart", "helm"})

\* updateBGPOnly (update.go:305-340); checkBGPEnabled only reads
updateBGPOnly(cfg, release, failAt) ==
    IF ~cfg.bgpEnabled THEN Ran(TRUE, <<>>) ELSE InstallMetalLB(cfg, release, failAt)

\* an update that goes on to the write of the record whatever the apply returned
AfterApply_SaveAnyway(err) == "save"

\* update.go:107-109: a non-nil updateErr is returned, nil goes on to the write
AfterApply(err) == IF err THEN "return updateErr" ELSE "save"

\* update.go:99-109: updateErr is set; returned when non-nil
UpdApplied(err) ==
    /\ updateErr' = IF err THEN "error" ELSE "nil"
    /\ IF AfterApply(err) = "save"
          THEN /\ uPc' = "save"
               /\ UNCHANGED uResult
          ELSE UpdReturn("error: apply failed")

\* update.go:99-109 with onlyBGP: one updateBGPOnly call
UpdApplyBGPOnly ==
    /\ UpdateFrame
    /\ uPc = "apply"
    /\ onlyBGP
    /\ \E failAt \in MetalLBFailPoints :
          LET r == updateBGPOnly(newCfg, mlbRelease, failAt) IN
          /\ uLog' = uLog \o r.cmds
          /\ applyCalls' = IF newCfg.bgpEnabled THEN applyCalls + 1 ELSE applyCalls
          /\ mlbRelease' = IF newCfg.bgpEnabled
                              THEN ReleaseAfter(newCfg, mlbRelease, failAt)
                              ELSE mlbRelease
          /\ UpdApplied(r.err)
    /\ UNCHANGED <<labelled, record, secret, newCfg, onlyBGP, autoConfirm, answer,
                   ownerOk, oldCfg, changes, applyIdx>>

\* a switch that sends a change of any type to updateBGPOnly
HasApplyRoutine_EveryType(type) == TRUE

\* updateFull, update.go:387-394: the switch has the one case "BGP"
HasApplyRoutine(type) == type = "BGP"

\* updateFull (update.go:374-396): one iteration of the loop over
\* detectAllChanges(oldCfg, newCfg); every change of type "BGP" calls
\* updateBGPOnly, any other type has no case in the switch
UpdApplyFull ==
    /\ UpdateFrame
    /\ uPc = "apply"
    /\ ~onlyBGP
    /\ LET all == detectAllChanges(oldCfg, newCfg) IN
       IF applyIdx > Len(all)
          THEN /\ UpdApplied(FALSE)
               /\ UNCHANGED <<uLog, applyCalls, mlbRelease, applyIdx>>
       ELSE IF ~HasApplyRoutine(all[applyIdx].type)
          THEN /\ applyIdx' = applyIdx + 1
               /\ UNCHANGED <<uPc, uResult, updateErr, uLog, applyCalls, mlbRelease>>
       ELSE \E failAt \in MetalLBFailPoints :
               LET r == updateBGPOnly(newCfg, mlbRelease, failAt) IN
               /\ uLog' = uLog \o r.cmds
               /\ applyCalls' = IF newCfg.bgpEnabled THEN applyCalls + 1 ELSE applyCalls
               /\ mlbRelease' = IF newCfg.bgpEnabled
                                   THEN ReleaseAfter(newCfg, mlbRelease, failAt)
                                   ELSE mlbRelease
               /\ IF r.err
                     THEN /\ UpdApplied(TRUE)
                          /\ UNCHANGED applyIdx
                     ELSE /\ applyIdx' = applyIdx + 1
                          /\ UNCHANGED <<uPc, uResult, updateErr>>
    /\ UNCHANGED <<labelled, record, secret, newCfg, onlyBGP, autoConfirm, answer,
                   ownerOk, oldCfg, changes>>

\* UpdateClusterConfigMap (config_store.go:233-285).  The patch file is
\* written with a PowerShell here-string through LocalExecutor, which runs
\* `sh -c` unless runtime.GOOS is "windows" (local.go:24-30): under sh the
\* write command fails and the patch is never applied.
HostOSes == {"linux", "windows"}

UpdateClusterConfigMapOutcomes(os) ==
    IF os = "windows" THEN {"write failed", "patch failed", "patched"}
                      ELSE {"write failed"}

\* UpdateClusterConfigMap (config_store.go:233-285): the record after the call
UpdateClusterConfigMap(cfg, out, rec) == IF out = "patched" THEN Sanitize(cfg) ELSE rec

\* update.go:111-121: a failed write only warns; the writer blanks the node
\* SSH passwords of newCfg itself (CallerConfigAfterCopy)
UpdSave ==
    /\ UpdateFrame
    /\ uPc = "save"
    /\ \E os \in HostOSes : \E out \in UpdateClusterConfigMapOutcomes(os) :
          /\ uLog' = uLog \o (IF out = "write failed"
                                 THEN <<"write patch file">>
                                 ELSE <<"write patch file", "kubectl patch configmap">>)
          /\ record' = UpdateClusterConfigMap(newCfg, out, record)
    /\ newCfg' = CallerConfigAfterCopy(newCfg)
    /\ UpdReturn("ok")
    /\ UNCHANGED <<labelled, secret, mlbRelease, onlyBGP, autoConfirm, answer, updateErr,
                   ownerOk, oldCfg, changes, applyIdx, applyCalls>>

UpdateNext ==
    \/ UpdVerifyCluster
    \/ UpdLoad
    \/ UpdValidate
    \/ UpdDetect
    \/ UpdConfirm
    \/ UpdApplyBGPOnly
    \/ UpdApplyFull
    \/ UpdSave

(***************************************************************************)
(* The fan-out batches checkSSHConnections (deploy.go:190-222),            *)
(* prepareAllNodes (deploy.go:225-273) with the pipeline of one node       *)
(* (prepareNodeInternal, prepare.go:38-91), and joinWorkers                *)
(* (deploy.go:551-622).                                                    *)
(***************************************************************************)
\* the stages of prepareNodeInternal: optimizeSystemInternal,
\* installContainerd, installK8sComponents, configureGPU
StageName(s) ==
    CASE s = 1 -> "system optimize"
      [] s = 2 -> "install containerd"
      [] s = 3 -> "install kubernetes components"
      [] s = 4 -> "configure GPU"

\* prepare.go:78: stage 4 runs on GPU nodes only
LastStage(gpu) == IF gpu THEN 4 ELSE 3

\* the commands a task that ran its whole pipeline executed
FullPipeline(gpu) == [s \in 1..LastStage(gpu) |-> StageName(s)]

PrepNodes == 1..Len(pGpu)

TaskFinished(t) == t.status \in {"done", "failed"}

\* wg.Wait() returning on the first finished task
AllTasksFinished_FirstOnly(tasks) ==
    \E i \in DOMAIN tasks : TaskFinished(tasks[i])

\* wg.Wait() (deploy.go:211, 260, 609): every goroutine called wg.Done()
AllTasksFinished(tasks) ==
    \A i \in DOMAIN tasks : TaskFinished(tasks[i])

\* a drain that finds no error
FirstError_AlwaysNil(ch) == 0

\* deploy.go:215-219, 263-268, 613-617: the first error read from the closed
\* channel, or nil
FirstError(ch) == IF ch = <<>> THEN 0 ELSE Head(ch)

\* the three functions that start one goroutine per node and collect the
\* errors in a buffered channel
FanOutBatches == {"checkSSHConnections", "prepareAllNodes", "joinWorkers"}

\* the commands of one joinWorkers goroutine (deploy.go:585, 588, 598)
JoinStageName(s) ==
    CASE s = 1 -> "test -f kubelet.conf"
      [] s = 2 -> "kubeadm reset"
      [] s = 3 -> "kubeadm join"

IdlePrep ==
    /\ pOp = "none"
    /\ pPc = "idle"
    /\ pGpu = <<>>
    /\ pTask = <<>>
    /\ pCmds = <<>>
    /\ errChan = <<>>
    /\ pErr = 0

\* the batch is called on a list of at least one node (cfg.Spec.Nodes passed
\* validateNodes; joinWorkers is called when len(workers) > 0,
\* deploy.go:144); node.GPU is read by prepareAllNodes only
InitPrep ==
    /\ pOp \in FanOutBatches
    /\ pPc = "spawn"
    /\ pGpu \in UNION {IF pOp = "prepareAllNodes" THEN [1..k -> BOOLEAN]
                                                  ELSE {[i \in 1..k |-> FALSE]}
                         : k \in 1..MaxPrepNodes}
    /\ pTask = [i \in 1..Len(pGpu) |-> [status |-> "unborn", stage |-> 0]]
    /\ pCmds = [i \in 1..Len(pGpu) |-> <<>>]
    /\ errChan = <<>>
    /\ pErr = 0

\* deploy.go:194-209, 241-258, 567-607: one goroutine per node
PrepSpawn ==
    /\ PrepFrame
    /\ pPc = "spawn"
    /\ pTask' = [i \in PrepNodes |-> [status |-> "new", stage |-> 0]]
    /\ pPc' = "wait"
    /\ UNCHANGED <<pOp, pGpu, pCmds, errChan, pErr>>

\* an unbuffered error channel
ErrChanCapacity_Unbuffered(n) == 0

\* deploy.go:192, 227, 553: make(chan error, len(nodes))
ErrChanCapacity(n) == n

\* a task failed: its error goes to errChan and the goroutine returns
\* (deploy.go:203-206, 250-254, 576-580, 589-592, 599-603); the send waits
\* while the channel is full
TaskFails(i, s) ==
    /\ Len(errChan) < ErrChanCapacity(Len(pGpu))
    /\ pTask' = [pTask EXCEPT ![i] = [status |-> "failed", stage |-> s]]
    /\ errChan' = Append(errChan, i)

\* checkSSHConnections, deploy.go:196-208: TestConnection connects and
\* executes `echo 'test'` (ssh.go:231-241)
SSHTaskTest(i) ==
    /\ PrepFrame
    /\ pOp = "checkSSHConnections"
    /\ pTask[i].status = "new"
    /\ \E connected \in BOOLEAN :
          /\ pCmds' = [pCmds EXCEPT ![i] = IF connected THEN Append(@, "echo test") ELSE @]
          /\ \/ /\ connected
                /\ pTask' = [pTask EXCEPT ![i] = [status |-> "done", stage |-> 0]]
                /\ UNCHANGED errChan
             \/ TaskFails(i, 0)
    /\ UNCHANGED <<pOp, pPc, pGpu, pErr>>

\* prepare.go:43-54: the task opens its own channel to the node
PrepTaskConnect(i) ==
    /\ PrepFrame
    /\ pOp = "prepareAllNodes"
    /\ pTask[i].status = "new"
    /\ \/ /\ pTask' = [pTask EXCEPT ![i] = [status |-> "run", stage |-> 1]]
          /\ UNCHANGED errChan
       \/ TaskFails(i, 0)
    /\ UNCHANGED <<pOp, pPc, pGpu, pCmds, pErr>>

\* prepare.go:56-91: the next stage of the node's pipeline
PrepTaskStage(i) ==
    /\ PrepFrame
    /\ pOp = "prepareAllNodes"
    /\ pTask[i].status = "run"
    /\ LET s == pTask[i].stage IN
       /\ pCmds' = [pCmds EXCEPT ![i] = Append(@, StageName(s))]
       /\ \/ /\ pTask' = [pTask EXCEPT ![i] =
                            IF s = LastStage(pGpu[i])
                               THEN [status |-> "done", stage |-> s]
                               ELSE [status |-> "run", stage |-> s + 1]]
             /\ UNCHANGED errChan
          \/ TaskFails(i, s)
    /\ UNCHANGED <<pOp, pPc, pGpu, pErr>>

\* joinWorkers, deploy.go:575-581: NewSSHClient; a failure is sent at 578
JoinTaskConnect(i) ==
    /\ PrepFrame
    /\ pOp = "joinWorkers"
    /\ pTask[i].status = "new"
    /\ \/ /\ pTask' = [pTask EXCEPT ![i] = [status |-> "run", stage |-> 1]]
          /\ UNCHANGED errChan
       \/ TaskFails(i, 0)
    /\ UNCHANGED <<pOp, pPc, pGpu, pCmds, pErr>>

\* joinWorkers, deploy.go:584-585: `test -f /etc/kubernetes/kubelet.conf`;
\* err == nil leads to the reset, any error to the join command
JoinTaskProbe(i) ==
    /\ PrepFrame
    /\ pOp = "joinWorkers"
    /\ pTask[i].status = "run"
    /\ pTask[i].stage = 1
    /\ pCmds' = [pCmds EXCEPT ![i] = Append(@, JoinStageName(1))]
    /\ \E found \in BOOLEAN :
          pTask' = [pTask EXCEPT ![i] = [status |-> "run",
                                         stage |-> IF found THEN 2 ELSE 3]]
    /\ UNCHANGED <<pOp, pPc, pGpu, errChan, pErr>>

\* joinWorkers, deploy.go:586-593: kubeadm reset; a failure is sent at 591
JoinTaskReset(i) ==
    /\ PrepFrame
    /\ pOp = "joinWorkers"
    /\ pTask[i].status = "run"
    /\ pTask[i].stage = 2
    /\ pCmds' = [pCmds EXCEPT ![i] = Append(@, JoinStageName(2))]
    /\ \/ /\ pTask' = [pTask EXCEPT ![i] = [status |-> "run", stage |-> 3]]
          /\ UNCHANGED errChan
       \/ TaskFails(i, 2)
    /\ UNCHANGED <<pOp, pPc, pGpu, pErr>>

\* joinWorkers, deploy.go:596-605: the join command; a failure is sent at 601
JoinTaskJoin(i) ==
    /\ PrepFrame
    /\ pOp = "joinWorkers"
    /\ pTask[i].status = "run"
    /\ pTask[i].stage = 3
    /\ pCmds' = [pCmds EXCEPT ![i] = Append(@, JoinStageName(3))]
    /\ \/ /\ pTask' = [pTask EXCEPT ![i] = [status |-> "done", stage |-> 3]]
          /\ UNCHANGED errChan
       \/ TaskFails(i, 3)
    /\ UNCHANGED <<pOp, pPc, pGpu, pErr>>

\* deploy.go:211-221, 260-272, 609-621: wg.Wait, close, the range over the
\* channel
PrepWaitReturn ==
    /\ PrepFrame
    /\ pPc = "wait"
    /\ AllTasksFinished(pTask)
    /\ pErr' = FirstError(errChan)
    /\ pPc' = "returned"
    /\ UNCHANGED <<pOp, pGpu, pTask, pCmds, errChan>>

SSHTestStep == \E i \in PrepNodes : SSHTaskTest(i)

PrepConnectStep == \E i \in PrepNodes : PrepTaskConnect(i)

PrepStageStep == \E i \in PrepNodes : PrepTaskStage(i)

JoinConnectStep == \E i \in PrepNodes : JoinTaskConnect(i)

JoinProbeStep == \E i \in PrepNodes : JoinTaskProbe(i)

JoinResetStep == \E i \in PrepNodes : JoinTaskReset(i)

JoinJoinStep == \E i \in PrepNodes : JoinTaskJoin(i)

PrepNext ==
    \/ PrepSpawn
    \/ SSHTestStep
    \/ PrepConnectStep
    \/ PrepStageStep
    \/ JoinConnectStep
    \/ JoinProbeStep
    \/ JoinResetStep
    \/ JoinJoinStep
    \/ PrepWaitReturn

(***************************************************************************)
(* DeployCluster (deploy.go:19-187).                                       *)
(***************************************************************************)
\* the specs an operator may hand to `cluster create`: no load balancer;
\* MetalLB in L2 mode with registry credentials and the Gateway API; BGP with
\* the Gateway API; MetalLB named as the provider with neither BGP nor an L2
\* mode; the L2 mode with no provider named; MetalLB in L2 mode with no
\* address pool (validateBGP looks at bgp.loadBalancerIPs only when BGP is
\* enabled, part_002:271-273)
CreateCfgs ==
    {BaseCfg,
     [BaseCfg EXCEPT !.lbProvider = "metallb", !.lbMode = "l2",
                     !.harborUser = "admin", !.harborPass = "secret",
                     !.sshPasswords = <<"rootpw", "">>, !.gatewayEnabled = TRUE],
     [BaseCfg EXCEPT !.lbProvider = "metallb", !.bgpEnabled = TRUE,
                     !.gatewayEnabled = TRUE],
     [BaseCfg EXCEPT !.lbProvider = "metallb"],
     [BaseCfg EXCEPT !.lbMode = "l2"],
     [BaseCfg EXCEPT !.lbProvider = "metallb", !.lbMode = "l2", !.lbIPs = <<>>]}

DeployPhases ==
    <<"confirm", "checkssh", "prepare", "haproxy", "probe", "init", "credential",
      "joinMasters", "kubectl", "cilium", "gateway", "metallb", "joinWorkers", "gpu",
      "validate", "save">>

PhaseNames == {DeployPhases[i] : i \in 1..Len(DeployPhases)}

\* getFirstMasterIP, getOtherMasters, getWorkers, getGPUNodes (deploy.go:489-526)
FleetNodes == 1..(nMasters + nWorkers)
getFirstMaster == 1
getOtherMasters == 2..nMasters
getWorkers == (nMasters + 1)..(nMasters + nWorkers)
getGPUNodes == dGpu

\* a nil *kubeadm.JoinCommand
NoJoin == [nil |-> TRUE]

\* the address of the first master node (getFirstMasterIP, deploy.go:489-496)
firstMasterIP == "10.0.0.11"

\* The values of spec.ha.vip: absent, not an IP address, an IP address.
VIPs == {"", "vip.example.com", "10.0.0.100"}

\* net.ParseIP(vip) != nil
ParsesAsIP(vip) == vip = "10.0.0.100"

\* validateHA (validator.go): nothing is checked when HA is off; HA needs at
\* least three masters and a virtual IP that parses
validateHA(enabled, vip, masterCount) ==
    IF ~enabled THEN "nil"
    ELSE IF masterCount < 3 THEN "HA needs at least 3 masters"
    ELSE IF vip = "" THEN "VIP required"
    ELSE IF ~ParsesAsIP(vip) THEN "VIP invalid"
    ELSE "nil"

\* the ":6443" both kubeadm sites append
WithAPIPort(host) == host \o ":6443"

\* kubeadm.GenerateInitConfig, kubeadm/config.go:38-42 (localIP is the first
\* master's address)
InitConfigEndpoint(cfg, vip) ==
    IF cfg.haEnabled THEN WithAPIPort(vip) ELSE WithAPIPort(firstMasterIP)

ControlPlaneEndpoint_FirstMasterAlways(cfg, vip) == WithAPIPort(firstMasterIP)

\* initFirstMaster, deploy.go:472-475: the endpoint of the join credential
ControlPlaneEndpoint(cfg, vip) ==
    IF cfg.haEnabled THEN WithAPIPort(vip) ELSE WithAPIPort(firstMasterIP)

\* DeployCluster, deploy.go:116-119: the endpoint handed to InstallCilium,
\* which generateCiliumValues (cilium.go:193-202) writes as k8sServiceHost
CiliumEndpoint(cfg, vip) == IF cfg.haEnabled THEN vip ELSE firstMasterIP

\* kubeadm.GenerateMasterJoinCommand (kubeadm/config.go:78-91)
GenerateMasterJoinCommand(cmd) ==
    [endpoint |-> cmd.endpoint, token |-> cmd.token, caHash |-> cmd.caHash,
     controlPlane |-> TRUE, certKey |-> cmd.certKey]

\* a worker join command built with a token of its own
GenerateWorkerJoinCommand_OwnToken(cmd) ==
    [endpoint |-> cmd.endpoint, token |-> cmd.token + 1, caHash |-> cmd.caHash,
     controlPlane |-> FALSE, certKey |-> ""]

\* kubeadm.GenerateWorkerJoinCommand (kubeadm/config.go:94-103)
GenerateWorkerJoinCommand(cmd) ==
    [endpoint |-> cmd.endpoint, token |-> cmd.token, caHash |-> cmd.caHash,
     controlPlane |-> FALSE, certKey |-> ""]

\* no Cilium values were generated
NoValues == [nil |-> TRUE]

\* Cilium values with BGP on for every spec
generateCiliumValues_BGPAlways(cfg, controlPlaneEndpoint) ==
    [K8sServiceHost |-> controlPlaneEndpoint,
     BGPEnabled |-> TRUE,
     LoadBalancerMode |-> IF cfg.lbMode # "" THEN cfg.lbMode ELSE "dsr",
     GatewayAPIEnabled |-> cfg.gatewayEnabled]

\* generateCiliumValues (cilium.go:193-226), the parameters the model keeps
generateCiliumValues(cfg, controlPlaneEndpoint) ==
    [K8sServiceHost |-> controlPlaneEndpoint,
     BGPEnabled |-> cfg.bgpEnabled,
     LoadBalancerMode |-> IF cfg.lbMode # "" THEN cfg.lbMode ELSE "dsr",
     GatewayAPIEnabled |-> cfg.gatewayEnabled]

IdleDeploy ==
    /\ dPc = "idle"
    /\ dAuto = FALSE
    /\ dCfg = NoCfg
    /\ haVIP = ""
    /\ nMasters = 0
    /\ nWorkers = 0
    /\ dGpu = {}
    /\ phase = <<>>
    /\ adminConf = FALSE
    /\ kubeletConf = {}
    /\ mutated = {}
    /\ tokensCreated = 0
    /\ joinInfo = NoJoin
    /\ certUploads = 0
    /\ joinsWith = {}
    /\ nState = <<>>
    /\ mState = <<>>
    /\ wState = <<>>
    /\ wLog = <<>>
    /\ client = "none"
    /\ gpuLabelled = {}
    /\ gpuTried = {}
    /\ initEndpoint = ""
    /\ k8sServiceHost = ""
    /\ ciliumValues = NoValues
    /\ dResult = "running"

\* The fleets `cluster create` accepts (validateHA; the virtual IP is read
\* only under HA.Enabled, so it is drawn only for the HA configurations)
\* and what an earlier run may have left on them: admin.conf on the first
\* master, kubelet.conf on the masters it had joined (joinMasters joins them
\* in list order, so they are the first joinedBefore of the list) and on any
\* of the workers (joinWorkers joins them concurrently).
InitDeploy ==
    /\ dPc = "confirm"
    /\ dAuto \in BOOLEAN
    /\ nMasters \in 1..MaxMasters
    /\ nWorkers \in 0..MaxWorkers
    /\ nMasters + nWorkers <= MaxFleet
    /\ dCfg \in {[c EXCEPT !.haEnabled = h] : c \in CreateCfgs, h \in BOOLEAN}
    /\ haVIP \in IF dCfg.haEnabled THEN VIPs ELSE {""}
    /\ validateHA(dCfg.haEnabled, haVIP, nMasters) = "nil"
    /\ \E firstGpu \in (nMasters + 1)..(nMasters + nWorkers + 1) :
          dGpu = firstGpu..(nMasters + nWorkers)
    /\ phase = [p \in PhaseNames |-> "none"]
    /\ adminConf \in BOOLEAN
    /\ \E joinedBefore \in 1..nMasters,
          workersBefore \in SUBSET ((nMasters + 1)..(nMasters + nWorkers)) :
          kubeletConf = (2..joinedBefore) \cup workersBefore
    /\ mutated = {}
    /\ tokensCreated = 0
    /\ joinInfo = NoJoin
    /\ certUploads = 0
    /\ joinsWith = {}
    /\ nState = [n \in 1..(nMasters + nWorkers) |-> "idle"]
    /\ mState = [m \in 2..nMasters |-> "idle"]
    /\ wState = [w \in (nMasters + 1)..(nMasters + nWorkers) |-> "idle"]
    /\ wLog = [w \in (nMasters + 1)..(nMasters + nWorkers) |-> <<>>]
    /\ client = "none"
    /\ gpuLabelled = {}
    /\ gpuTried = {}
    /\ initEndpoint = ""
    /\ k8sServiceHost = ""
    /\ ciliumValues = NoValues
    /\ dResult = "running"

\* the phase ended and the run goes on at `next`
DeployGoes(p, s, next) ==
    /\ phase' = [phase EXCEPT ![p] = s]
    /\ dPc' = next
    /\ UNCHANGED dResult

\* `return err` out of DeployCluster
DeployFails(p, e) ==
    /\ phase' = [phase EXCEPT ![p] = "failed"]
    /\ dPc' = "done"
    /\ dResult' = e

\* deploy.go:39-43: WaitForConfirmation, skipped with autoConfirm; a declined
\* confirmation returns nil
DeployConfirm ==
    /\ DeployFrame
    /\ dPc = "confirm"
    /\ \E yes \in BOOLEAN :
          IF dAuto \/ yes
             THEN DeployGoes("confirm", "ok", "checkssh")
             ELSE /\ phase' = [phase EXCEPT !["confirm"] = "declined"]
                  /\ dPc' = "done"
                  /\ dResult' = "nil"
    /\ UNCHANGED <<dFleet, dNodeState, dCred, dTasks, client, dGpuState, dEndpoints, clusterVars>>

\* a goroutine of a fan-out batch has returned
NodeTaskFinished(st) == st \in {"ok", "failed"}

\* deploy.go:50-54, checkSSHConnections (deploy.go:190-209): one goroutine per
\* node is started
DeployCheckSSH ==
    /\ DeployFrame
    /\ dPc = "checkssh"
    /\ nState' = [n \in FleetNodes |-> "new"]
    /\ DeployGoes("checkssh", "running", "sshWait")
    /\ UNCHANGED <<dFleet, dNodeState, dCred, mState, wState, wLog, client, dGpuState,
                   dEndpoints, clusterVars>>

\* checkSSHConnections, deploy.go:196-208: the goroutine of node n runs
\* TestConnection (`echo test`) and sends its error to errChan
DeploySSHTest(n) ==
    /\ DeployFrame
    /\ dPc = "sshWait"
    /\ nState[n] = "new"
    /\ \E ok \in BOOLEAN :
          nState' = [nState EXCEPT ![n] = IF ok THEN "ok" ELSE "failed"]
    /\ UNCHANGED <<dPc, dFleet, phase, dNodeState, dCred, mState, wState, wLog, client,
                   dGpuState, dEndpoints, dResult, clusterVars>>

\* checkSSHConnections, deploy.go:211-221: wg.Wait, close, then the first
\* error of errChan or nil.  DeployCluster reads of the three batches only
\* whether they returned an error (deploy.go:52, 58, 146); the channel, its
\* sends and its drain are followed task by task in SpecPrepare
DeploySSHReturn ==
    /\ DeployFrame
    /\ dPc = "sshWait"
    /\ \A n \in FleetNodes : NodeTaskFinished(nState[n])
    /\ IF \E n \in FleetNodes : nState[n] = "failed"
          THEN DeployFails("checkssh", "SSH connection failed")
          ELSE DeployGoes("checkssh", "ok", "prepare")
    /\ UNCHANGED <<dFleet, dNodeState, dCred, dTasks, client, dGpuState, dEndpoints,
                   clusterVars>>

\* deploy.go:56-60, prepareAllNodes (deploy.go:225-258): one goroutine per
\* node is started
DeployPrepare ==
    /\ DeployFrame
    /\ dPc = "prepare"
    /\ nState' = [n \in FleetNodes |-> "new"]
    /\ DeployGoes("prepare", "running", "prepWait")
    /\ UNCHANGED <<dFleet, dNodeState, dCred, mState, wState, wLog, client, dGpuState,
                   dEndpoints, clusterVars>>

\* the goroutine of node n is in prepareNodeInternal, about to run a stage
AtStage(st) == \E s \in 1..4 : st = StageName(s)

\* the stage whose name is st
StageOf(st) == CHOOSE s \in 1..4 : st = StageName(s)

\* prepareAllNodes, deploy.go:243-257, prepareNodeInternal (prepare.go:43-54):
\* the goroutine of node n opens its connection; a failure is sent to errChan
\* and the goroutine ends
DeployPrepareConnect(n) ==
    /\ DeployFrame
    /\ dPc = "prepWait"
    /\ nState[n] = "new"
    /\ \E connected \in BOOLEAN :
          nState' = [nState EXCEPT ![n] = IF connected THEN StageName(1) ELSE "failed"]
    /\ UNCHANGED <<dPc, dFleet, phase, dNodeState, dCred, mState, wState, wLog,
                   client, dGpuState, dEndpoints, dResult, clusterVars>>

\* prepareNodeInternal (prepare.go:56-91): the next stage of node n, the
\* fourth on GPU nodes only. The first stage starts with a query (detectOS,
\* optimize.go:35) and may fail with the node as it was; every later stage
\* finds the node changed. The goroutine returns nil after its last stage.
DeployPrepareStage(n) ==
    /\ DeployFrame
    /\ dPc = "prepWait"
    /\ AtStage(nState[n])
    /\ LET s == StageOf(nState[n]) IN
       \E ok \in BOOLEAN, changed \in BOOLEAN :
          /\ ok \/ s > 1 => changed
          /\ mutated' = IF changed THEN mutated \cup {n} ELSE mutated
          /\ nState' = [nState EXCEPT ![n] =
                           IF ~ok THEN "failed"
                           ELSE IF s = LastStage(n \in dGpu) THEN "ok"
                           ELSE StageName(s + 1)]
    /\ UNCHANGED <<dPc, dFleet, phase, adminConf, kubeletConf, dCred, mState, wState, wLog,
                   client, dGpuState, dEndpoints, dResult, clusterVars>>

\* prepareAllNodes, deploy.go:260-272: wg.Wait, close, then the first error
\* of errChan or nil
DeployPrepareReturn ==
    /\ DeployFrame
    /\ dPc = "prepWait"
    /\ \A n \in FleetNodes : NodeTaskFinished(nState[n])
    /\ IF \E n \in FleetNodes : nState[n] = "failed"
          THEN DeployFails("prepare", "node preparation failed")
          ELSE DeployGoes("prepare", "ok", "haproxy")
    /\ UNCHANGED <<dFleet, dNodeState, dCred, dTasks, client, dGpuState, dEndpoints,
                   clusterVars>>

\* deploy.go:62-73, setupHAProxy (deploy.go:276-364): installs and configures
\* HAProxy and Keepalived on the first master
DeployHAProxy ==
    /\ DeployFrame
    /\ dPc = "haproxy"
    /\ IF dCfg.haEnabled
          THEN \E connected \in BOOLEAN : \E ok \in BOOLEAN :
                  /\ ok => connected
                  /\ mutated' = IF connected THEN mutated \cup {getFirstMaster}
                                             ELSE mutated
                  /\ IF ok THEN DeployGoes("haproxy", "ok", "probe")
                           ELSE DeployFails("haproxy", "HAProxy setup failed")
          ELSE /\ DeployGoes("haproxy", "skipped", "probe")
               /\ UNCHANGED mutated
    /\ UNCHANGED <<dFleet, adminConf, kubeletConf, dCred, dTasks, client,
                   dGpuState, dEndpoints, clusterVars>>

\* initFirstMaster, deploy.go:367-427: the probe for admin.conf, the strong
\* confirmation and the reset
DeployInitProbe ==
    /\ DeployFrame
    /\ dPc = "probe"
    /\ \E connected \in BOOLEAN, probeRan \in BOOLEAN, yes \in BOOLEAN, resetOk \in BOOLEAN :
          IF ~connected
             THEN /\ DeployFails("probe", "SSH connection failed")
                  /\ UNCHANGED <<adminConf, mutated, clusterVars>>
          ELSE IF ~(probeRan /\ adminConf)
             THEN /\ DeployGoes("probe", "ok", "init")
                  /\ UNCHANGED <<adminConf, mutated, clusterVars>>
          ELSE IF ~yes
             THEN /\ phase' = [phase EXCEPT !["probe"] = "declined"]
                  /\ dPc' = "done"
                  /\ dResult' = "user cancelled"
                  /\ UNCHANGED <<adminConf, mutated, clusterVars>>
          ELSE /\ mutated' = mutated \cup {getFirstMaster}
               /\ IF resetOk
                     THEN /\ DeployGoes("probe", "ok", "init")
                          /\ adminConf' = FALSE
                          /\ labelled' = {}
                          /\ record' = NoCfg
                          /\ secret' = NoSecret
                          /\ mlbRelease' = FALSE
                     ELSE /\ DeployFails("probe", "node reset failed")
                          /\ UNCHANGED <<adminConf, clusterVars>>
    /\ UNCHANGED <<dFleet, kubeletConf, dCred, dTasks, client, dGpuState, dEndpoints>>

\* initFirstMaster, deploy.go:429-467: upload of the kubeadm configuration,
\* kubeadm init, copy of admin.conf
DeployKubeadmInit ==
    /\ DeployFrame
    /\ dPc = "init"
    /\ \E failAt \in {"none", "upload", "init", "kubeconfig"} :
          /\ mutated' = mutated \cup {getFirstMaster}
          /\ adminConf' = (adminConf \/ failAt \in {"none", "kubeconfig"})
          /\ initEndpoint' = InitConfigEndpoint(dCfg, haVIP)
          /\ IF failAt = "none"
                THEN DeployGoes("init", "ok", "credential")
                ELSE DeployFails("init", "kubeadm init failed")
    /\ UNCHANGED <<dFleet, kubeletConf, dCred, dTasks, client, dGpuState, k8sServiceHost,
                   ciliumValues, clusterVars>>

\* deploy.go:477: the forMaster argument of the one GetJoinInfo call
ForMasterArgument == TRUE

\* GetJoinInfo, config.go:255-261: UploadCerts is executed when forMaster is
\* set and neither CreateToken nor GetCACertHash failed
UploadCertsRuns(forMaster, failAt) == forMaster /\ failAt \in {"none", "certs"}

\* initFirstMaster, deploy.go:469-485, kubeadm.GetJoinInfo (config.go:235-264):
\* CreateToken, GetCACertHash, UploadCerts (forMaster is true)
DeployJoinInfo ==
    /\ DeployFrame
    /\ dPc = "credential"
    /\ \E failAt \in {"none", "token", "cahash", "certs"} :
          /\ tokensCreated' = IF failAt = "token" THEN tokensCreated
                                                  ELSE tokensCreated + 1
          /\ certUploads' = IF UploadCertsRuns(ForMasterArgument, failAt)
                               THEN certUploads + 1 ELSE certUploads
          /\ IF failAt = "none"
                THEN /\ joinInfo' = [endpoint |-> ControlPlaneEndpoint(dCfg, haVIP),
                                     token |-> tokensCreated + 1,
                                     caHash |-> "sha256:ca", certKey |-> "certkey"]
                     /\ DeployGoes("credential", "ok", "joinMasters")
                ELSE /\ UNCHANGED joinInfo
                     /\ DeployFails("credential", "join info failed")
    /\ UNCHANGED <<dFleet, dNodeState, joinsWith, dTasks, client, dGpuState, dEndpoints, clusterVars>>

\* joinMasters (deploy.go:528-549): the loop body for master m starts when
\* the bodies of all masters before it returned without error
MasterMayStart_Concurrent(ms, m) == ms[m] = "idle"

MasterMayStart(ms, m) ==
    /\ ms[m] = "idle"
    /\ \A k \in DOMAIN ms : k < m => ms[k] = "joined"

\* What `kubeadm join` can return on node n: its preflight refuses a node
\* where /etc/kubernetes/kubelet.conf exists (no --ignore-preflight-errors in
\* the commands of kubeadm/config.go:79-103).
KubeadmJoinOutcomes(n) == IF n \in kubeletConf THEN {FALSE} ELSE BOOLEAN

\* joinMasters, deploy.go:530-539: connect and issue the join command; the
\* loop has no probe of kubelet.conf and no reset
DeployMasterJoinStart(m) ==
    /\ DeployFrame
    /\ dPc = "joinMasters"
    /\ MasterMayStart(mState, m)
    /\ \E connected \in BOOLEAN :
          IF connected
             THEN /\ mState' = [mState EXCEPT ![m] = "joining"]
                  /\ joinsWith' = joinsWith \cup
                        {[node |-> m, cmd |-> GenerateMasterJoinCommand(joinInfo)]}
                  /\ mutated' = mutated \cup {m}
                  /\ phase' = [phase EXCEPT !["joinMasters"] = "running"]
                  /\ UNCHANGED <<dPc, dResult>>
             ELSE /\ mState' = [mState EXCEPT ![m] = "failed"]
                  /\ DeployFails("joinMasters", "SSH connection failed")
                  /\ UNCHANGED <<joinsWith, mutated>>
    /\ UNCHANGED <<dFleet, adminConf, kubeletConf, tokensCreated, joinInfo, certUploads,
                   nState, wState, wLog,
                   client, dGpuState, dEndpoints, clusterVars>>

\* joinMasters, deploy.go:539-546: the join command returned
DeployMasterJoinFinish(m) ==
    /\ DeployFrame
    /\ dPc = "joinMasters"
    /\ mState[m] = "joining"
    /\ \E ok \in KubeadmJoinOutcomes(m) :
          IF ok
             THEN /\ mState' = [mState EXCEPT ![m] = "joined"]
                  /\ kubeletConf' = kubeletConf \cup {m}
                  /\ UNCHANGED <<dPc, phase, dResult>>
             ELSE /\ mState' = [mState EXCEPT ![m] = "failed"]
                  /\ DeployFails("joinMasters", "master join failed")
                  /\ UNCHANGED kubeletConf
    /\ UNCHANGED <<dFleet, adminConf, mutated, dCred, nState, wState, wLog, client, dGpuState,
                   dEndpoints, clusterVars>>

\* deploy.go:88-94: joinMasters returned nil, or there is no other master
DeployMastersDone ==
    /\ DeployFrame
    /\ dPc = "joinMasters"
    /\ \A m \in getOtherMasters : mState[m] = "joined"
    /\ DeployGoes("joinMasters", IF getOtherMasters = {} THEN "skipped" ELSE "ok",
                  "kubectl")
    /\ UNCHANGED <<dFleet, dNodeState, dCred, dTasks, client, dGpuState, dEndpoints, clusterVars>>

\* deploy.go:100-109: the error of NewSSHClient is dropped, so the client may
\* be nil; setupLocalKubectl (deploy.go:670-757) installs the local kubectl
\* first and then reads admin.conf through the client; its failure only warns
DeployKubectl ==
    /\ DeployFrame
    /\ dPc = "kubectl"
    /\ \E connected \in BOOLEAN, localOk \in BOOLEAN, ok \in BOOLEAN :
          /\ client' = IF connected THEN "open" ELSE "nil"
          /\ IF ~localOk THEN DeployGoes("kubectl", "warned", "cilium")
             ELSE IF ~connected THEN DeployFails("kubectl", "panic")
             ELSE DeployGoes("kubectl", IF ok THEN "ok" ELSE "warned", "cilium")
    /\ UNCHANGED <<dFleet, dNodeState, dCred, dTasks, dGpuState, dEndpoints, clusterVars>>

CiliumFailPoints ==
    {"none", "helm", "deploy", "verify", "gwclass", "gwapply", "gwaddress"}

\* deployDefaultGateway (cilium.go:290-353): an error when the GatewayClass
\* is not accepted in time or the Gateway cannot be applied; a Gateway
\* without address after the wait only warns and returns nil
deployDefaultGateway(failAt) ==
    [err |-> failAt \in {"gwclass", "gwapply"},
     warned |-> failAt \in {"gwclass", "gwapply", "gwaddress"}]

\* InstallCilium (cilium.go:39-83): installHelmOffline, deployCiliumOffline,
\* verifyCilium, then deployDefaultGateway when the Gateway API is enabled,
\* whose error is only a warning
InstallCilium(cfg, failAt) ==
    IF failAt \in {"helm", "deploy", "verify"}
       THEN [err |-> TRUE, gateway |-> "none"]
       ELSE [err |-> FALSE,
             gateway |-> IF ~cfg.gatewayEnabled THEN "skipped"
                         ELSE IF deployDefaultGateway(failAt).warned THEN "warned"
                         ELSE "ok"]

\* deploy.go:116-123: InstallCilium through the client
DeployCilium ==
    /\ DeployFrame
    /\ dPc = "cilium"
    /\ IF client = "nil"
          THEN /\ DeployFails("cilium", "panic")
               /\ UNCHANGED <<mutated, k8sServiceHost, ciliumValues>>
          ELSE \E failAt \in CiliumFailPoints :
                  LET r == InstallCilium(dCfg, failAt) IN
                  /\ mutated' = mutated \cup {getFirstMaster}
                  /\ k8sServiceHost' = IF failAt = "helm" THEN k8sServiceHost
                                       ELSE CiliumEndpoint(dCfg, haVIP)
                  /\ ciliumValues' =
                        IF failAt = "helm" THEN ciliumValues
                        ELSE generateCiliumValues(dCfg, CiliumEndpoint(dCfg, haVIP))
                  /\ phase' = [phase EXCEPT !["cilium"] = IF r.err THEN "failed" ELSE "ok",
                                            !["gateway"] = r.gateway]
                  /\ dPc' = IF r.err THEN "done" ELSE "metallb"
                  /\ dResult' = IF r.err THEN "Cilium install failed" ELSE dResult
    /\ UNCHANGED <<dFleet, adminConf, kubeletConf, dCred, dTasks, client,
                   dGpuState, initEndpoint, clusterVars>>

\* deploy.go:133-135: the error of InstallMetalLB, wrapped; InstallMetalLB
\* returns the error of its first failing step, and createMetalLBIPPool
\* returns "LoadBalancerIPs 配置为空" for an empty list before it runs any
\* command (part_003:160-162)
MetalLBError(cfg, release, failAt) ==
    IF /\ ~deployMetalLBHelm(release, failAt).err
       /\ ~waitForMetalLB(failAt).err
       /\ Len(cfg.lbIPs) = 0
       THEN "MetalLB install failed: LoadBalancerIPs empty"
       ELSE "MetalLB install failed"

\* deploy.go:128
MetalLBRequested(cfg) == cfg.lbProvider = "metallb" \/ cfg.bgpEnabled

\* deploy.go:125-136: InstallMetalLB through the local executor
DeployMetalLB ==
    /\ DeployFrame
    /\ dPc = "metallb"
    /\ IF MetalLBRequested(dCfg)
          THEN \E failAt \in MetalLBFailPoints :
                  /\ mlbRelease' = ReleaseAfter(dCfg, mlbRelease, failAt)
                  /\ IF InstallMetalLB(dCfg, mlbRelease, failAt).err
                        THEN DeployFails("metallb",
                                         MetalLBError(dCfg, mlbRelease, failAt))
                        ELSE DeployGoes("metallb", "ok", "joinWorkers")
          ELSE /\ DeployGoes("metallb", "skipped", "joinWorkers")
               /\ UNCHANGED mlbRelease
    /\ UNCHANGED <<dFleet, dNodeState, dCred, dTasks, client, dGpuState, dEndpoints,
                   labelled, record, secret>>

WorkerFinished(st) == st \in {"done", "failed"}

\* deploy.go:143-149, joinWorkers deploy.go:567-607: one goroutine per worker
DeployWorkersSpawn ==
    /\ DeployFrame
    /\ dPc = "joinWorkers"
    /\ IF getWorkers = {}
          THEN /\ DeployGoes("joinWorkers", "skipped", "gpu")
               /\ UNCHANGED wState
          ELSE /\ wState' = [w \in getWorkers |-> "new"]
               /\ DeployGoes("joinWorkers", "running", "workersWait")
    /\ UNCHANGED <<dFleet, dNodeState, dCred, nState, mState, wLog, client, dGpuState, dEndpoints,
                   clusterVars>>

\* deploy.go:575-594: where the task goes after connecting and probing;
\* `found` is err == nil of `test -f /etc/kubernetes/kubelet.conf`
AfterProbe(connected, found) ==
    IF ~connected THEN "failed" ELSE IF found THEN "reset" ELSE "ready"

\* a task that goes on to the join command whatever the reset returned
AfterReset_IgnoreFailure(ok) == "ready"

\* deploy.go:589-593: a failed reset ends the task with an error
AfterReset(ok) == IF ok THEN "ready" ELSE "failed"

\* joinWorkers, deploy.go:575-594: connect, probe kubelet.conf
DeployWorkerProbe(w) ==
    /\ DeployFrame
    /\ dPc = "workersWait"
    /\ wState[w] = "new"
    /\ \E connected \in BOOLEAN, probeRan \in BOOLEAN :
          LET found == probeRan /\ w \in kubeletConf IN
          /\ wState' = [wState EXCEPT ![w] = AfterProbe(connected, found)]
          /\ wLog' = [wLog EXCEPT ![w] =
                         IF ~connected THEN @
                         ELSE Append(@, IF found THEN "probe:found" ELSE "probe:clean")]
    /\ UNCHANGED <<dPc, dFleet, phase, dNodeState, dCred, nState, mState, client,
                   dGpuState, dEndpoints, dResult, clusterVars>>

\* joinWorkers, deploy.go:586-593: kubeadm reset on a worker that joined before
DeployWorkerReset(w) ==
    /\ DeployFrame
    /\ dPc = "workersWait"
    /\ wState[w] = "reset"
    /\ mutated' = mutated \cup {w}
    /\ \E ok \in BOOLEAN :
          /\ wState' = [wState EXCEPT ![w] = AfterReset(ok)]
          /\ wLog' = [wLog EXCEPT ![w] =
                         Append(@, IF ok THEN "reset:ok" ELSE "reset:failed")]
          /\ kubeletConf' = IF ok THEN kubeletConf \ {w} ELSE kubeletConf
    /\ UNCHANGED <<dPc, dFleet, phase, adminConf, dCred, nState, mState, client,
                   dGpuState, dEndpoints, dResult, clusterVars>>

\* joinWorkers, deploy.go:596-605: the join command
DeployWorkerJoin(w) ==
    /\ DeployFrame
    /\ dPc = "workersWait"
    /\ wState[w] = "ready"
    /\ mutated' = mutated \cup {w}
    /\ joinsWith' = joinsWith \cup
          {[node |-> w, cmd |-> GenerateWorkerJoinCommand(joinInfo)]}
    /\ \E ok \in KubeadmJoinOutcomes(w) :
          /\ wState' = [wState EXCEPT ![w] = IF ok THEN "done" ELSE "failed"]
          /\ wLog' = [wLog EXCEPT ![w] =
                         Append(@, IF ok THEN "join:ok" ELSE "join:failed")]
          /\ kubeletConf' = IF ok THEN kubeletConf \cup {w} ELSE kubeletConf
    /\ UNCHANGED <<dPc, dFleet, phase, adminConf, tokensCreated, joinInfo, certUploads,
                   nState, mState, client, dGpuState, dEndpoints, dResult, clusterVars>>

\* joinWorkers, deploy.go:609-621: wg.Wait, then the first error or nil
DeployWorkersReturn ==
    /\ DeployFrame
    /\ dPc = "workersWait"
    /\ \A w \in getWorkers : WorkerFinished(wState[w])
    /\ IF \E w \in getWorkers : wState[w] = "failed"
          THEN DeployFails("joinWorkers", "worker join failed")
          ELSE DeployGoes("joinWorkers", "ok", "gpu")
    /\ UNCHANGED <<dFleet, dNodeState, dCred, dTasks, client, dGpuState, dEndpoints, clusterVars>>

\* a tagging loop that ends at the first node that cannot be tagged
LabelGPUNodes_StopAtFirstFailure(nodes, failing) ==
    LET tried == {n \in nodes : \A f \in failing : n <= f} IN
    [tried |-> tried, tagged |-> tried \ failing]

\* deploy.go:159-163: LabelGPUNode for every GPU node in list order; a
\* failure warns and the loop goes on
LabelGPUNodes(nodes, failing) == [tried |-> nodes, tagged |-> nodes \ failing]

\* deploy.go:151-164
DeployGPU ==
    /\ DeployFrame
    /\ dPc = "gpu"
    /\ \E failing \in SUBSET getGPUNodes :
          LET r == LabelGPUNodes(getGPUNodes, failing) IN
          /\ gpuLabelled' = r.tagged
          /\ gpuTried' = r.tried
          /\ DeployGoes("gpu", IF getGPUNodes = {} THEN "skipped"
                               ELSE IF r.tagged = getGPUNodes THEN "ok" ELSE "warned",
                        "validate")
    /\ UNCHANGED <<dFleet, dNodeState, dCred, dTasks, client, dEndpoints, clusterVars>>

\* deploy.go:166-172, validateCluster (deploy.go:624-644): two read-only queries
DeployValidate ==
    /\ DeployFrame
    /\ dPc = "validate"
    /\ \E ok \in BOOLEAN :
          IF ok THEN DeployGoes("validate", "ok", "save")
                ELSE DeployFails("validate", "validation failed")
    /\ UNCHANGED <<dFleet, dNodeState, dCred, dTasks, client, dGpuState, dEndpoints, clusterVars>>

\* labelClusterNodes (config_store.go:58-70): in list order, stops at the
\* first node that cannot be labelled
LabelledAfter(k) == 1..k

\* saveSensitiveToSecret (config_store.go:127-166)
SecretOf(cfg) ==
    IF cfg.harborUser = "" /\ cfg.harborPass = ""
       THEN NoSecret
       ELSE [user |-> cfg.harborUser, pass |-> cfg.harborPass]

\* deploy.go:174-186, SaveClusterConfig (config_store.go:30-55): a failure
\* only warns, and the run returns nil; saveConfigToConfigMap is reached on
\* every path and blanks the node SSH passwords of cfg itself
DeploySave ==
    /\ DeployFrame
    /\ dPc = "save"
    /\ \E k \in 0..(nMasters + nWorkers), mapOk \in BOOLEAN, secretOk \in BOOLEAN :
          /\ labelled' = labelled \cup LabelledAfter(k)
          /\ record' = saveConfigToConfigMap(dCfg, mapOk, record)
          /\ secret' = IF mapOk /\ secretOk THEN SecretOf(dCfg) ELSE secret
          /\ phase' = [phase EXCEPT !["save"] = IF mapOk THEN "ok" ELSE "warned"]
    /\ dCfg' = CallerConfigAfterCopy(dCfg)
    /\ dPc' = "done"
    /\ dResult' = "nil"
    /\ UNCHANGED <<dAuto, haVIP, nMasters, nWorkers, dGpu, dNodeState, dCred, dTasks, client,
                   dGpuState, dEndpoints, mlbRelease>>

DeploySSHTestStep == \E n \in FleetNodes : DeploySSHTest(n)

DeployPrepareConnectStep == \E n \in FleetNodes : DeployPrepareConnect(n)

DeployPrepareStageStep == \E n \in FleetNodes : DeployPrepareStage(n)

DeployMasterJoinStartStep == \E m \in getOtherMasters : DeployMasterJoinStart(m)

DeployMasterJoinFinishStep == \E m \in getOtherMasters : DeployMasterJoinFinish(m)

DeployWorkerProbeStep == \E w \in getWorkers : DeployWorkerProbe(w)

DeployWorkerResetStep == \E w \in getWorkers : DeployWorkerReset(w)

DeployWorkerJoinStep == \E w \in getWorkers : DeployWorkerJoin(w)

DeployNext ==
    \/ DeployConfirm
    \/ DeployCheckSSH
    \/ DeploySSHTestStep
    \/ DeploySSHReturn
    \/ DeployPrepare
    \/ DeployPrepareConnectStep
    \/ DeployPrepareStageStep
    \/ DeployPrepareReturn
    \/ DeployHAProxy
    \/ DeployInitProbe
    \/ DeployKubeadmInit
    \/ DeployJoinInfo
    \/ DeployMasterJoinStartStep
    \/ DeployMasterJoinFinishStep
    \/ DeployMastersDone
    \/ DeployKubectl
    \/ DeployCilium
    \/ DeployMetalLB
    \/ DeployWorkersSpawn
    \/ DeployWorkerProbeStep
    \/ DeployWorkerResetStep
    \/ DeployWorkerJoinStep
    \/ DeployWorkersReturn
    \/ DeployGPU
    \/ DeployValidate
    \/ DeploySave

(***************************************************************************)
(* verifyCilium (cilium.go:240-287).                                       *)
(***************************************************************************)
\* cilium.go:244
maxRetries == 60

DigitChars == <<"0", "1", "2", "3", "4", "5", "6", "7", "8", "9">>

RECURSIVE Digits(_)
\* the decimal digits of n, as kubectl prints a count
Digits(n) == IF n < 10 THEN <<DigitChars[n + 1]>>
                       ELSE Append(Digits(n \div 10), DigitChars[(n % 10) + 1])

\* cilium.go:246: the jsonpath '{.status.numberReady}/{.status.desiredNumberScheduled}'
FormatReady(ready, desired) == Digits(ready) \o <<"/">> \o Digits(desired)

\* what one DaemonSet query can answer
NoObs == [ok |-> FALSE, ready |-> 0, desired |-> 0]

DaemonSetAnswers ==
    {NoObs} \cup {[ok |-> TRUE, ready |-> r, desired |-> d] :
                     r \in 0..MaxAgents, d \in 0..MaxAgents}

\* cilium.go:247-249: the test that ends the wait
LooksReady(obs) ==
    LET output == FormatReady(obs.ready, obs.desired) IN
    /\ obs.ok
    /\ output # <<>>
    /\ output[1] # "0"
    /\ Len(output) > 2

\* deployDefaultGateway, cilium.go:294: maxRetries of the GatewayClass poll
gatewayClassRetries == 12

\* deployDefaultGateway, cilium.go:332: the bound of the address poll
gatewayAddressRetries == 12

NoProbes == [daemonset |-> 0, gwclass |-> 0, gwaddress |-> 0]

\* a poll that never gives up
LastAttempt_Never(i, budget) == FALSE

\* cilium.go:251, 302, 343: the iteration that ends the poll when the awaited
\* condition did not hold
LastAttempt(i, budget) == i = budget - 1

IdleCilium ==
    /\ vPc = "idle"
    /\ vI = 0
    /\ vObs = NoObs
    /\ vProxy = "unknown"
    /\ vResult = "running"
    /\ vGateway = FALSE
    /\ gI = 0
    /\ probes = NoProbes
    /\ vWarning = "none"
    /\ vInstall = "running"

InitCilium ==
    /\ vPc = "poll"
    /\ vI = 0
    /\ vObs = NoObs
    /\ vProxy = "unknown"
    /\ vResult = "running"
    /\ vGateway \in BOOLEAN
    /\ gI = 0
    /\ probes = NoProbes
    /\ vWarning = "none"
    /\ vInstall = "running"

\* cilium.go:245-263: one iteration of the wait loop
CiliumPoll ==
    /\ CiliumFrame
    /\ vPc = "poll"
    /\ vI < maxRetries
    /\ probes' = [probes EXCEPT !.daemonset = @ + 1]
    /\ \E obs \in DaemonSetAnswers :
          /\ obs.ready <= obs.desired
          /\ vObs' = obs
          /\ IF LooksReady(obs)
                THEN /\ vPc' = "proxy"
                     /\ UNCHANGED <<vI, vResult>>
                ELSE IF LastAttempt(vI, maxRetries)
                THEN /\ vPc' = "verified"
                     /\ vResult' = "DaemonSet not ready"
                     /\ UNCHANGED vI
                ELSE /\ vI' = vI + 1
                     /\ UNCHANGED <<vPc, vResult>>
    /\ UNCHANGED <<vProxy, vGateway, gI, vWarning, vInstall>>

\* cilium.go:265-274: kube-proxy still present only warns
CiliumProxyCheck ==
    /\ CiliumFrame
    /\ vPc = "proxy"
    /\ vProxy' \in {"present", "not found", "query failed"}
    /\ vPc' = "pods"
    /\ UNCHANGED <<vI, vObs, vResult, vGateway, gI, probes, vWarning, vInstall>>

\* cilium.go:276-286: the pod listing, and the return of verifyCilium
CiliumPods ==
    /\ CiliumFrame
    /\ vPc = "pods"
    /\ \E ok \in BOOLEAN : vResult' = IF ok THEN "nil" ELSE "pod listing failed"
    /\ vPc' = "verified"
    /\ UNCHANGED <<vI, vObs, vProxy, vGateway, gI, probes, vWarning, vInstall>>

\* InstallCilium, cilium.go:55-68: the error of verifyCilium is returned;
\* deployDefaultGateway is called when the Gateway API is enabled.  The
\* locals of verifyCilium are gone.
CiliumVerified ==
    /\ CiliumFrame
    /\ vPc = "verified"
    /\ vPc' = IF vResult = "nil" /\ vGateway THEN "gwclass" ELSE "done"
    /\ vInstall' = IF vResult # "nil" THEN "error"
                   ELSE IF vGateway THEN vInstall ELSE "nil"
    /\ vI' = 0
    /\ vObs' = NoObs
    /\ vProxy' = "unknown"
    /\ UNCHANGED <<vResult, vGateway, gI, probes, vWarning>>

\* InstallCilium, cilium.go:62-66: an error of deployDefaultGateway is a
\* warning, and InstallCilium returns nil
GatewayEnds(cause) ==
    /\ vPc' = "done"
    /\ vWarning' = cause
    /\ vInstall' = "nil"

\* deployDefaultGateway, cilium.go:294-308: one iteration of the
\* GatewayClass poll
GatewayClassPoll ==
    /\ CiliumFrame
    /\ vPc = "gwclass"
    /\ gI < gatewayClassRetries
    /\ probes' = [probes EXCEPT !.gwclass = @ + 1]
    /\ \E accepted \in BOOLEAN :
          IF accepted
             THEN /\ vPc' = "gwapply"
                  /\ gI' = 0
                  /\ UNCHANGED <<vWarning, vInstall>>
          ELSE IF LastAttempt(gI, gatewayClassRetries)
             THEN /\ GatewayEnds("GatewayClass not ready")
                  /\ UNCHANGED gI
          ELSE /\ gI' = gI + 1
               /\ UNCHANGED <<vPc, vWarning, vInstall>>
    /\ UNCHANGED <<vI, vObs, vProxy, vResult, vGateway>>

\* deployDefaultGateway, cilium.go:310-328: upload and apply of the Gateway
GatewayApply ==
    /\ CiliumFrame
    /\ vPc = "gwapply"
    /\ \E failAt \in {"none", "upload", "apply"} :
          IF failAt = "none"
             THEN /\ vPc' = "gwaddress"
                  /\ UNCHANGED <<vWarning, vInstall>>
             ELSE GatewayEnds("Gateway apply failed")
    /\ UNCHANGED <<vI, vObs, vProxy, vResult, vGateway, gI, probes>>

\* deployDefaultGateway, cilium.go:330-350: one iteration of the address
\* poll; without an address after the last one it warns and returns nil
GatewayAddressPoll ==
    /\ CiliumFrame
    /\ vPc = "gwaddress"
    /\ gI < gatewayAddressRetries
    /\ probes' = [probes EXCEPT !.gwaddress = @ + 1]
    /\ \E hasAddress \in BOOLEAN :
          IF hasAddress
             THEN /\ GatewayEnds("none")
                  /\ UNCHANGED gI
          ELSE IF LastAttempt(gI, gatewayAddressRetries)
             THEN /\ GatewayEnds("Gateway has no address")
                  /\ UNCHANGED gI
          ELSE /\ gI' = gI + 1
               /\ UNCHANGED <<vPc, vWarning, vInstall>>
    /\ UNCHANGED <<vI, vObs, vProxy, vResult, vGateway>>

CiliumNext ==
    \/ CiliumPoll
    \/ CiliumProxyCheck
    \/ CiliumPods
    \/ CiliumVerified
    \/ GatewayClassPoll
    \/ GatewayApply
    \/ GatewayAddressPoll

RetryNext ==
    \/ RetryCall
    \/ RetryLoop
    \/ RetryExecute
    \/ RetryReconnect
    \/ RetryExecuteAgain
    \/ RetryBackoff

(***************************************************************************)
(* The constructors of SSHClient (pkg/executor/ssh.go:28-77, 264-299).     *)
(***************************************************************************)
\* ssh.go:266
rootKeyFile == "/root/.ssh/id_rsa"

KeyFiles == {rootKeyFile, "~/.ssh/id_ed25519"}

SSHUsers == {"root", "ubuntu"}

\* os.ReadFile and ssh.ParsePrivateKey on a key file
KeyFileStates == {"usable", "unreadable", "unparsable"}

\* this machine's key files, the (user, key file) pairs the host accepts and
\* the users for whom the host accepts the password "pw"
ConnectEnvs ==
    [file : [KeyFiles -> KeyFileStates],
     accepted : SUBSET (SSHUsers \X KeyFiles),
     passwordUsers : SUBSET SSHUsers]

\* NewSSHClientWithPassword (ssh.go:34-77): with a key file the one auth
\* method is the key, and a key that cannot be read or parsed returns at
\* once; the password is used only when keyFile is empty
NewSSHClientWithPassword(env, user, keyFile, password) ==
    IF keyFile # ""
       THEN IF env.file[keyFile] = "unreadable" THEN "error: read key failed"
            ELSE IF env.file[keyFile] = "unparsable" THEN "error: parse key failed"
            ELSE IF <<user, keyFile>> \in env.accepted THEN "client"
            ELSE "error: SSH dial failed"
    ELSE IF password # ""
       THEN IF user \in env.passwordUsers THEN "client" ELSE "error: SSH dial failed"
    ELSE "error: no key and no password"

\* the strategies of NewSSHClientSmart, password before the keys
SmartOrder_PasswordFirst == <<"user password", "root key", "user key">>

\* NewSSHClientSmart (ssh.go:271, 281, 290): the order of its three attempts
SmartOrder == <<"root key", "user key", "user password">>

\* ssh.go:267-269: an empty keyFile becomes the root key file
SmartKeyFile(keyFile) == IF keyFile = "" THEN rootKeyFile ELSE keyFile

\* ssh.go:280 and 289: the conditions under which an attempt is made
SmartApplies(strategy, args) ==
    CASE strategy = "root key" -> TRUE
      [] strategy = "user key" ->
            SmartKeyFile(args.keyFile) # "" /\ SmartKeyFile(args.keyFile) # rootKeyFile
      [] strategy = "user password" -> args.password # ""

\* ssh.go:271, 282, 291: the call of NewSSHClientWithPassword of an attempt
SmartAttempt(strategy, env, args) ==
    CASE strategy = "root key" ->
            NewSSHClientWithPassword(env, "root", rootKeyFile, "")
      [] strategy = "user key" ->
            NewSSHClientWithPassword(env, args.user, SmartKeyFile(args.keyFile), "")
      [] strategy = "user password" ->
            NewSSHClientWithPassword(env, args.user, "", args.password)

NoArgs == [nil |-> TRUE]

\* the arguments of the NewSSHClientWithPassword call of an attempt
SmartDial(strategy, args) ==
    CASE strategy = "root key" ->
            [user |-> "root", keyFile |-> rootKeyFile, password |-> ""]
      [] strategy = "user key" ->
            [user |-> args.user, keyFile |-> SmartKeyFile(args.keyFile), password |-> ""]
      [] strategy = "user password" ->
            [user |-> args.user, keyFile |-> "", password |-> args.password]

\* ssh.go:69-76, 275-276, 284, 293: the fields of the client an attempt
\* returns, after NewSSHClientSmart stored the key file and the password
SmartClient(strategy, args) ==
    [User |-> SmartDial(strategy, args).user,
     keyFile |-> SmartKeyFile(args.keyFile),
     password |-> args.password]

\* NewSSHClientSmart (ssh.go:264-299) from strategy i on: what it returns and
\* the NewSSHClientWithPassword calls it makes
RECURSIVE NewSSHClientSmartFrom(_, _, _, _)
NewSSHClientSmartFrom(i, env, args, dials) ==
    IF i > Len(SmartOrder)
       THEN [result |-> "error: every way to connect failed", dials |-> dials,
             client |-> NoArgs]
    ELSE LET st == SmartOrder[i] IN
         IF ~SmartApplies(st, args)
            THEN NewSSHClientSmartFrom(i + 1, env, args, dials)
         ELSE IF SmartAttempt(st, env, args) = "client"
            THEN [result |-> "client", dials |-> Append(dials, SmartDial(st, args)),
                  client |-> SmartClient(st, args)]
         ELSE NewSSHClientSmartFrom(i + 1, env, args, Append(dials, SmartDial(st, args)))

NewSSHClientSmart(env, args) == NewSSHClientSmartFrom(1, env, args, <<>>)

IdleConnect ==
    /\ cPc = "idle"
    /\ cCtor = "none"
    /\ cArgs = NoArgs
    /\ cEnv = NoArgs
    /\ cI = 0
    /\ cTried = <<>>
    /\ cResult = "none"
    /\ cClient = NoArgs
    /\ cDials = <<>>
    /\ cReconn = "none"

InitConnect ==
    /\ cPc = "call"
    /\ cCtor \in {"NewSSHClientWithPassword", "NewSSHClientSmart"}
    /\ cArgs \in [user : SSHUsers, keyFile : KeyFiles \cup {""}, password : {"", "pw"}]
    /\ cEnv \in ConnectEnvs
    /\ cI = 0
    /\ cTried = <<>>
    /\ cResult = "none"
    /\ cClient = NoArgs
    /\ cDials = <<>>
    /\ cReconn = "none"

\* NewSSHClientWithPassword (ssh.go:34-77), called by prepareNodeInternal
\* (prepare.go:44)
ConnectWithPassword ==
    /\ ConnectFrame
    /\ cPc = "call"
    /\ cCtor = "NewSSHClientWithPassword"
    /\ cResult' = NewSSHClientWithPassword(cEnv, cArgs.user, cArgs.keyFile, cArgs.password)
    /\ cTried' = <<IF cArgs.keyFile # "" THEN "user key" ELSE "user password">>
    /\ cClient' = IF cResult' = "client"
                     THEN [User |-> cArgs.user, keyFile |-> cArgs.keyFile,
                           password |-> cArgs.password]
                     ELSE NoArgs
    /\ cPc' = "done"
    /\ UNCHANGED <<cCtor, cArgs, cEnv, cI, cDials, cReconn>>

\* NewSSHClientSmart (ssh.go:264-270)
ConnectSmartCall ==
    /\ ConnectFrame
    /\ cPc = "call"
    /\ cCtor = "NewSSHClientSmart"
    /\ cPc' = "try"
    /\ cI' = 1
    /\ UNCHANGED <<cCtor, cArgs, cEnv, cTried, cResult, cClient, cDials, cReconn>>

\* NewSSHClientSmart (ssh.go:271-296): one attempt, or the skip of one
ConnectSmartTry ==
    /\ ConnectFrame
    /\ cPc = "try"
    /\ cI <= Len(SmartOrder)
    /\ LET st == SmartOrder[cI] IN
       IF ~SmartApplies(st, cArgs)
          THEN /\ cI' = cI + 1
               /\ UNCHANGED <<cPc, cTried, cResult, cClient>>
       ELSE IF SmartAttempt(st, cEnv, cArgs) = "client"
          THEN /\ cTried' = Append(cTried, st)
               /\ cResult' = "client"
               /\ cClient' = SmartClient(st, cArgs)
               /\ cPc' = "done"
               /\ UNCHANGED cI
          ELSE /\ cTried' = Append(cTried, st)
               /\ cI' = cI + 1
               /\ UNCHANGED <<cPc, cResult, cClient>>
    /\ UNCHANGED <<cCtor, cArgs, cEnv, cDials, cReconn>>

\* NewSSHClientSmart (ssh.go:298): every attempt failed
ConnectSmartFail ==
    /\ ConnectFrame
    /\ cPc = "try"
    /\ cI > Len(SmartOrder)
    /\ cResult' = "error: every way to connect failed"
    /\ cPc' = "done"
    /\ UNCHANGED <<cCtor, cArgs, cEnv, cI, cTried, cClient, cDials, cReconn>>

\* SSHClient.Reconnect (ssh.go:327-342) on the client the constructor
\* returned: NewSSHClientSmart on the client's own User, keyFile and password,
\* against what the host accepts at the time of the call (nothing at all
\* when it cannot be reached); on success only client and User are taken
\* from the new client, on failure the client keeps its fields
ClientReconnect ==
    /\ ConnectFrame
    /\ cPc = "done"
    /\ cResult = "client"
    /\ \E acc \in SUBSET (SSHUsers \X KeyFiles), pw \in SUBSET SSHUsers :
          LET host == [cEnv EXCEPT !.accepted = acc, !.passwordUsers = pw]
              r == NewSSHClientSmart(host, [user |-> cClient.User,
                                            keyFile |-> cClient.keyFile,
                                            password |-> cClient.password])
          IN  /\ cDials' = r.dials
              /\ IF r.result = "client"
                    THEN /\ cReconn' = "nil"
                         /\ cClient' = [cClient EXCEPT !.User = r.client.User]
                    ELSE /\ cReconn' = "error"
                         /\ UNCHANGED cClient
    /\ UNCHANGED <<cPc, cCtor, cArgs, cEnv, cI, cTried, cResult>>

ConnectNext ==
    \/ ConnectWithPassword
    \/ ConnectSmartCall
    \/ ConnectSmartTry
    \/ ConnectSmartFail
    \/ ClientReconnect

(***************************************************************************)
(* The two writers of the persisted record, each on any spec.              *)
(***************************************************************************)
StoreWriters == {"saveConfigToConfigMap", "UpdateClusterConfigMap"}

StoreCfgs == NewCfgs \cup CreateCfgs

IdleStore ==
    /\ sPc = "idle"
    /\ sCfg = NoCfg
    /\ sWriter = "none"
    /\ sAfter = NoCfg

InitStore ==
    /\ sPc = "write"
    /\ sCfg \in StoreCfgs
    /\ sWriter \in StoreWriters
    /\ sAfter = NoCfg

\* saveConfigToConfigMap (config_store.go:73-124)
StoreSave ==
    /\ StoreFrame
    /\ sPc = "write"
    /\ sWriter = "saveConfigToConfigMap"
    /\ \E ok \in BOOLEAN :
          /\ record' = saveConfigToConfigMap(sCfg, ok, record)
          /\ sPc' = IF ok THEN "written" ELSE "failed"
    /\ sAfter' = CallerConfigAfterCopy(sCfg)
    /\ UNCHANGED <<labelled, secret, mlbRelease, sCfg, sWriter>>

\* UpdateClusterConfigMap (config_store.go:233-285)
StoreUpdate ==
    /\ StoreFrame
    /\ sPc = "write"
    /\ sWriter = "UpdateClusterConfigMap"
    /\ \E os \in HostOSes : \E out \in UpdateClusterConfigMapOutcomes(os) :
          /\ record' = UpdateClusterConfigMap(sCfg, out, record)
          /\ sPc' = IF out = "patched" THEN "written" ELSE "failed"
    /\ sAfter' = CallerConfigAfterCopy(sCfg)
    /\ UNCHANGED <<labelled, secret, mlbRelease, sCfg, sWriter>>

StoreNext ==
    \/ StoreSave
    \/ StoreUpdate

(***************************************************************************)
(* LoadFromFile (loader.go:13-33): ValidateConfig, then                    *)
(* processNodeHostnames (loader.go:42-67), which has no other caller and   *)
(* looks at Role, GPU and Hostname of each node and at the cluster name.   *)
(***************************************************************************)
\* the most nodes of a list
MaxHostNodes == 3

\* Role as written in the file: the two roles and one that is neither
HostRoles == {"master", "worker", "etcd"}

\* Hostname as written in the file: absent, or a name of the user's choice
UserHostnames(name) == {"", name \o "-master-01", "web-01"}

HostNodes(name) ==
    [role : HostRoles, gpu : BOOLEAN, hostname : UserHostnames(name)]

RECURSIVE DecimalString(_)
\* %d of a non-negative number
DecimalString(n) == IF n < 10 THEN DigitChars[n + 1]
                    ELSE DecimalString(n \div 10) \o DigitChars[(n % 10) + 1]

\* %02d: padded with a zero to two characters, longer numbers as they are
Sprintf02d(n) == IF n < 10 THEN "0" \o DecimalString(n) ELSE DecimalString(n)

\* fmt.Sprintf("%s-<tag>-%02d", clusterName, n), loader.go:53, 57, 60
SprintfHostname(name, tag, n) == name \o "-" \o tag \o "-" \o Sprintf02d(n)

\* loader.go:52-62: the counter the node takes its number from, "none" for a
\* node that keeps its hostname or has neither role
HostCounter(node) ==
    IF node.hostname # "" THEN "none"
    ELSE IF node.role = "master" THEN "master"
    ELSE IF node.role = "worker" THEN (IF node.gpu THEN "gpuWorker" ELSE "worker")
    ELSE "none"

\* the role tag written for each counter
HostTag == [master |-> "master", worker |-> "node", gpuWorker |-> "gpu-node"]

\* validateNodes (validator.go), the checks on what the model keeps of a node,
\* in the order of the code: the list is not empty; per node the role, an
\* empty hostname, a hostname seen on an earlier node, a master with a GPU;
\* after the loop, at least one master
RECURSIVE validateNodesFrom(_, _)
validateNodesFrom(nodes, i) ==
    IF i > Len(nodes)
       THEN (IF \E k \in 1..Len(nodes) : nodes[k].role = "master"
                THEN "nil" ELSE "no master")
    ELSE IF nodes[i].role \notin {"master", "worker"} THEN "bad role"
    ELSE IF nodes[i].hostname = "" THEN "hostname empty"
    ELSE IF \E k \in 1..(i - 1) : nodes[k].hostname = nodes[i].hostname
            THEN "hostname duplicate"
    ELSE IF nodes[i].role = "master" /\ nodes[i].gpu THEN "gpu master"
    ELSE validateNodesFrom(nodes, i + 1)

validateNodes(nodes) ==
    IF Len(nodes) = 0 THEN "no nodes" ELSE validateNodesFrom(nodes, 1)

\* processNodeHostnames is unexported and called at loader.go:30 only
HostEntries == {"LoadFromFile"}

IdleHost ==
    /\ hPc = "idle"
    /\ hEntry = "none"
    /\ clusterName = ""
    /\ hIn = <<>>
    /\ hNodes = <<>>
    /\ hI = 0
    /\ hCount = [master |-> 0, worker |-> 0, gpuWorker |-> 0]

\* LoadFromFile (loader.go:13-33) with the file parsed, at ValidateConfig
InitHost ==
    /\ hEntry \in HostEntries
    /\ hPc = "validate"
    /\ clusterName \in Names
    /\ hIn \in SeqsUpTo(HostNodes(clusterName), MaxHostNodes)
    /\ hNodes = hIn
    /\ hI = 1
    /\ hCount = [master |-> 1, worker |-> 1, gpuWorker |-> 1]

\* LoadFromFile, loader.go:24-30: ValidateConfig, whose error is returned
\* before processNodeHostnames is called
LoadValidate ==
    /\ HostFrame
    /\ hPc = "validate"
    /\ hPc' = IF validateNodes(hNodes) = "nil" THEN "loop" ELSE "rejected"
    /\ UNCHANGED <<hEntry, clusterName, hIn, hNodes, hI, hCount>>

\* loader.go:48-64: one iteration of the loop
ProcessNode ==
    /\ HostFrame
    /\ hPc = "loop"
    /\ hI <= Len(hNodes)
    /\ LET c == HostCounter(hNodes[hI]) IN
       IF c = "none"
          THEN UNCHANGED <<hNodes, hCount>>
          ELSE /\ hNodes' = [hNodes EXCEPT
                     ![hI].hostname = SprintfHostname(clusterName, HostTag[c], hCount[c])]
               /\ hCount' = [hCount EXCEPT ![c] = @ + 1]
    /\ hI' = hI + 1
    /\ UNCHANGED <<hPc, hEntry, clusterName, hIn>>

\* the loop ends
ProcessReturn ==
    /\ HostFrame
    /\ hPc = "loop"
    /\ hI > Len(hNodes)
    /\ hPc' = "returned"
    /\ UNCHANGED <<hEntry, clusterName, hIn, hNodes, hI, hCount>>

HostNext ==
    \/ LoadValidate
    \/ ProcessNode
    \/ ProcessReturn

(***************************************************************************)
(* The maintenance calls on a deployed cluster: AddNode and RemoveNode     *)
(* (gpu.go:449-569), PrepareNode (prepare.go:28-30), UninstallMetalLB,     *)
(* SetupHostsFile (prepare.go:410-455), SetupSSHKeys (gpu.go:241-271) and  *)
(* SetupHA (part_004:15-40).  `cluster create` calls SetupSSHKeys and      *)
(* SetupHostsFile before DeployCluster as well (deploy.go:845, 872).       *)
(***************************************************************************)
MaintenanceOps ==
    {"AddNode", "RemoveNode", "PrepareNode", "UninstallMetalLB", "SetupHostsFile",
     "SetupSSHKeys", "SetupHA"}

\* the functions that take one node as their argument
NodeArgOps == {"AddNode", "RemoveNode", "PrepareNode"}

IdleOps ==
    /\ oPc = "idle"
    /\ oOp = "none"
    /\ oNode = 0
    /\ oStage = 0
    /\ oJoin = NoJoin
    /\ oCalls = 0
    /\ oResult = "none"

\* A cluster some run of DeployCluster created: the first master holds
\* admin.conf, the nodes that joined hold kubelet.conf, any of the nodes may
\* carry the deployer label and any GPU node its tag; no call is in progress.
InitNodeOps ==
    /\ IdleOps
    /\ nMasters \in 1..MaxMasters
    /\ nWorkers \in 0..1
    /\ nMasters + nWorkers <= MaxFleet
    /\ labelled \in SUBSET (1..(nMasters + nWorkers))
    /\ record \in {NoCfg, Sanitize(BaseCfg)}
    /\ secret = NoSecret
    /\ mlbRelease \in BOOLEAN
    /\ dPc = "idle"
    /\ dAuto = FALSE
    /\ dCfg = BaseCfg
    /\ haVIP = ""
    /\ dGpu \in {{}, (nMasters + 1)..(nMasters + nWorkers)}
    /\ phase = <<>>
    /\ adminConf = TRUE
    /\ kubeletConf \in SUBSET (2..(nMasters + nWorkers))
    /\ mutated = {}
    /\ tokensCreated = 0
    /\ joinInfo = NoJoin
    /\ certUploads = 0
    /\ joinsWith = {}
    /\ nState = <<>>
    /\ mState = <<>>
    /\ wState = <<>>
    /\ wLog = <<>>
    /\ client = "none"
    /\ gpuLabelled = {}
    /\ gpuTried = {}
    /\ initEndpoint = ""
    /\ k8sServiceHost = ""
    /\ ciliumValues = NoValues
    /\ dResult = "running"

\* `return err` or `return nil` out of the function called
OpReturn(r) ==
    /\ oPc' = "returned"
    /\ oResult' = r

\* where each function starts
OpEntry(op) ==
    CASE op = "AddNode" -> "connect"
      [] op = "PrepareNode" -> "connect"
      [] op = "RemoveNode" -> "remove"
      [] op = "UninstallMetalLB" -> "uninstall"
      [] op = "SetupHostsFile" -> "hosts"
      [] op = "SetupSSHKeys" -> "ensurekey"
      [] op = "SetupHA" -> "ha"

\* the operator calls one of the functions, on a node of the fleet where the
\* function takes one, once the call before it has returned
OpCall ==
    /\ NodeOpsFrame
    /\ oPc \in {"idle", "returned"}
    /\ oCalls < MaxOps
    /\ \E op \in MaintenanceOps, n \in FleetNodes :
          /\ oOp' = op
          /\ oNode' = IF op \in NodeArgOps THEN n ELSE 0
          /\ oPc' = OpEntry(op)
    /\ oStage' = 0
    /\ oJoin' = NoJoin
    /\ oCalls' = oCalls + 1
    /\ oResult' = "running"
    /\ UNCHANGED <<clusterVars, deployVars>>

\* PrepareNode (prepare.go:28-30), also step 1 of AddNode (gpu.go:454-456):
\* prepareNodeInternal opens its connection (prepare.go:43-54)
NodePrepareConnect ==
    /\ NodeOpsFrame
    /\ oPc = "connect"
    /\ \E connected \in BOOLEAN :
          IF connected
             THEN /\ oPc' = "stage"
                  /\ oStage' = 1
                  /\ UNCHANGED oResult
             ELSE /\ OpReturn("SSH connection failed")
                  /\ UNCHANGED oStage
    /\ UNCHANGED <<oOp, oNode, oJoin, oCalls, clusterVars, deployVars>>

\* prepareNodeInternal (prepare.go:56-91): the next stage, the fourth on GPU
\* nodes only; after the last one PrepareNode returns nil and AddNode goes on
\* to its step 2
NodePrepareStage ==
    /\ NodeOpsFrame
    /\ oPc = "stage"
    /\ \E ok \in BOOLEAN, changed \in BOOLEAN :
          /\ ok \/ oStage > 1 => changed
          /\ mutated' = IF changed THEN mutated \cup {oNode} ELSE mutated
          /\ IF ~ok
                THEN /\ OpReturn("node preparation failed")
                     /\ UNCHANGED oStage
                ELSE IF oStage < LastStage(oNode \in dGpu)
                THEN /\ oStage' = oStage + 1
                     /\ UNCHANGED <<oPc, oResult>>
                ELSE IF oOp = "PrepareNode"
                THEN /\ OpReturn("nil")
                     /\ UNCHANGED oStage
                ELSE /\ oPc' = "joininfo"
                     /\ UNCHANGED <<oStage, oResult>>
    /\ UNCHANGED <<oOp, oNode, oJoin, oCalls, clusterVars, dPc, dFleet, phase, adminConf,
                   kubeletConf, dCred, dTasks, client, dGpuState, dEndpoints, dResult>>

\* gpu.go:468: isMaster := (newNode.Role == "master")
IsMasterNode(n) == n <= nMasters

\* AddNode step 2 (gpu.go:459-472): the connection to the master, then
\* kubeadm.GetJoinInfo (config.go:235-264) with forMaster = isMaster, which
\* creates a token of its own and uploads the certificates for a master; the
\* controlPlaneEndpoint argument is the endpoint of the cluster
AddNodeJoinInfo ==
    /\ NodeOpsFrame
    /\ oPc = "joininfo"
    /\ \E connected \in BOOLEAN, failAt \in {"none", "token", "cahash", "certs"} :
          /\ failAt = "certs" => IsMasterNode(oNode)
          /\ IF ~connected
                THEN /\ OpReturn("master connection failed")
                     /\ UNCHANGED <<tokensCreated, certUploads, oJoin>>
                ELSE /\ tokensCreated' = IF failAt = "token" THEN tokensCreated
                                                             ELSE tokensCreated + 1
                     /\ certUploads' = IF UploadCertsRuns(IsMasterNode(oNode), failAt)
                                          THEN certUploads + 1 ELSE certUploads
                     /\ IF failAt = "none"
                           THEN /\ oJoin' = [endpoint |-> ControlPlaneEndpoint(dCfg, haVIP),
                                             token |-> tokensCreated + 1,
                                             caHash |-> "sha256:ca",
                                             certKey |-> IF IsMasterNode(oNode)
                                                            THEN "certkey" ELSE ""]
                                /\ oPc' = "join"
                                /\ UNCHANGED oResult
                           ELSE /\ OpReturn("join info failed")
                                /\ UNCHANGED oJoin
    /\ UNCHANGED <<oOp, oNode, oStage, oCalls, clusterVars, dPc, dFleet, phase, dNodeState,
                   joinInfo, joinsWith, dTasks, client, dGpuState, dEndpoints, dResult>>

\* AddNode step 3 (gpu.go:475-496): the connection to the new node and the
\* join command of its role
AddNodeJoin ==
    /\ NodeOpsFrame
    /\ oPc = "join"
    /\ \E connected \in BOOLEAN :
          IF ~connected
             THEN /\ OpReturn("new node connection failed")
                  /\ UNCHANGED <<joinsWith, mutated, kubeletConf>>
             ELSE /\ joinsWith' = joinsWith \cup
                        {[node |-> oNode,
                          cmd |-> IF IsMasterNode(oNode)
                                     THEN GenerateMasterJoinCommand(oJoin)
                                     ELSE GenerateWorkerJoinCommand(oJoin)]}
                  /\ mutated' = mutated \cup {oNode}
                  /\ \E ok \in KubeadmJoinOutcomes(oNode) :
                        IF ok
                           THEN /\ kubeletConf' = kubeletConf \cup {oNode}
                                /\ oPc' = "label"
                                /\ UNCHANGED oResult
                           ELSE /\ OpReturn("join failed")
                                /\ UNCHANGED kubeletConf
    /\ UNCHANGED <<oOp, oNode, oStage, oJoin, oCalls, clusterVars, dPc, dFleet, phase,
                   adminConf, tokensCreated, joinInfo, certUploads, dTasks, client,
                   dGpuState, dEndpoints, dResult>>

\* AddNode, gpu.go:498-521: LabelGPUNode for a GPU node and the query of the
\* node's state, whose failures only warn; the node gets no deployer label
AddNodeLabel ==
    /\ NodeOpsFrame
    /\ oPc = "label"
    /\ \E tagged \in BOOLEAN :
          IF oNode \in dGpu
             THEN /\ gpuTried' = gpuTried \cup {oNode}
                  /\ gpuLabelled' = IF tagged THEN gpuLabelled \cup {oNode} ELSE gpuLabelled
             ELSE UNCHANGED <<gpuTried, gpuLabelled>>
    /\ OpReturn("nil")
    /\ UNCHANGED <<oOp, oNode, oStage, oJoin, oCalls, clusterVars, dPc, dFleet, phase,
                   dNodeState, dCred, dTasks, client, dEndpoints, dResult>>

\* RemoveNode (gpu.go:525-569): a failed drain only warns, a failed
\* `kubectl delete node` returns the error; the deleted Node object takes
\* its labels with it; the reset is only a hint, so the node keeps its
\* kubelet.conf
RemoveNode ==
    /\ NodeOpsFrame
    /\ oPc = "remove"
    /\ \E connected \in BOOLEAN, drained \in BOOLEAN, deleted \in BOOLEAN :
          IF ~connected
             THEN /\ OpReturn("master connection failed")
                  /\ UNCHANGED <<labelled, gpuLabelled>>
          ELSE IF ~deleted
             THEN /\ OpReturn("node delete failed")
                  /\ UNCHANGED <<labelled, gpuLabelled>>
          ELSE /\ labelled' = labelled \ {oNode}
               /\ gpuLabelled' = gpuLabelled \ {oNode}
               /\ OpReturn("nil")
    /\ UNCHANGED <<oOp, oNode, oStage, oJoin, oCalls, record, secret, mlbRelease, dPc,
                   dFleet, phase, dNodeState, dCred, dTasks, client, gpuTried, dEndpoints,
                   dResult>>

\* UninstallMetalLB: the four deletes of the MetalLB resources ignore their
\* errors, a failed `helm uninstall metallb` only warns, the delete of the
\* namespace ignores its error and the function returns nil; the release is
\* gone when one of the two removed it
UninstallMetalLB ==
    /\ NodeOpsFrame
    /\ oPc = "uninstall"
    /\ \E uninstalled \in BOOLEAN :
          mlbRelease' = (mlbRelease /\ ~uninstalled)
    /\ OpReturn("nil")
    /\ UNCHANGED <<oOp, oNode, oStage, oJoin, oCalls, labelled, record, secret, deployVars>>

\* the loop over the nodes goes on with the next node, or the function
\* returns nil after the last one
NextNodeOrReturn(last) ==
    IF oNode < last
       THEN /\ oNode' = oNode + 1
            /\ UNCHANGED <<oPc, oResult>>
       ELSE /\ OpReturn("nil")
            /\ UNCHANGED oNode

\* SetupHostsFile (prepare.go:410-432): the entries are generated and the
\* local hosts file is updated, whose failure only warns; the loop starts
\* at the first node
SetupHostsFile ==
    /\ NodeOpsFrame
    /\ oPc = "hosts"
    /\ oPc' = "hostsnode"
    /\ oNode' = 1
    /\ UNCHANGED <<oOp, oStage, oJoin, oCalls, oResult, clusterVars, deployVars>>

\* SetupHostsFile, one iteration of prepare.go:434-455: the connection, then
\* updateRemoteHostsFile (prepare.go:563-635): the backup copy, the script
\* that rewrites /etc/hosts, the check of the marker; the first error is
\* returned
updateRemoteHostsFile ==
    /\ NodeOpsFrame
    /\ oPc = "hostsnode"
    /\ \E failAt \in {"none", "connect", "backup", "update", "verify"}, changed \in BOOLEAN :
          /\ failAt = "connect" => ~changed
          /\ failAt \in {"none", "update", "verify"} => changed
          /\ mutated' = IF changed THEN mutated \cup {oNode} ELSE mutated
          /\ IF failAt = "connect" THEN OpReturn("SSH connection failed") /\ UNCHANGED oNode
             ELSE IF failAt # "none" THEN OpReturn("hosts update failed") /\ UNCHANGED oNode
             ELSE NextNodeOrReturn(nMasters + nWorkers)
    /\ UNCHANGED <<oOp, oStage, oJoin, oCalls, clusterVars, dPc, dFleet, phase, adminConf,
                   kubeletConf, dCred, dTasks, client, dGpuState, dEndpoints, dResult>>

\* SetupSSHKeys (gpu.go:241-250): ensureSSHKey (gpu.go:274-350) reads or
\* generates the local key pair; its error is returned before any node is
\* touched
SetupSSHKeys ==
    /\ NodeOpsFrame
    /\ oPc = "ensurekey"
    /\ \E keyOk \in BOOLEAN :
          IF keyOk
             THEN /\ oPc' = "keynode"
                  /\ oNode' = 1
                  /\ UNCHANGED oResult
             ELSE /\ OpReturn("SSH key not available")
                  /\ UNCHANGED oNode
    /\ UNCHANGED <<oOp, oStage, oJoin, oCalls, clusterVars, deployVars>>

\* SetupSSHKeys, one iteration of gpu.go:255-264: setupNodeSSHKey
\* (gpu.go:353-430) connects with the password, runs the script that adds
\* the key to root's authorized_keys and restarts sshd, then connects as
\* root with the key and runs whoami; the first error is returned
setupNodeSSHKey ==
    /\ NodeOpsFrame
    /\ oPc = "keynode"
    /\ \E failAt \in {"none", "connect", "script", "verify"}, changed \in BOOLEAN :
          /\ failAt = "connect" => ~changed
          /\ failAt \in {"none", "verify"} => changed
          /\ mutated' = IF changed THEN mutated \cup {oNode} ELSE mutated
          /\ IF failAt = "connect" THEN OpReturn("SSH connection failed") /\ UNCHANGED oNode
             ELSE IF failAt = "script" THEN OpReturn("SSH key setup failed") /\ UNCHANGED oNode
             ELSE IF failAt = "verify" THEN OpReturn("verification failed") /\ UNCHANGED oNode
             ELSE NextNodeOrReturn(nMasters + nWorkers)
    /\ UNCHANGED <<oOp, oStage, oJoin, oCalls, clusterVars, dPc, dFleet, phase, adminConf,
                   kubeletConf, dCred, dTasks, client, dGpuState, dEndpoints, dResult>>

\* SetupHA (part_004:15-24): getMasterNodes; fewer than three masters is an
\* error before any node is touched
SetupHA ==
    /\ NodeOpsFrame
    /\ oPc = "ha"
    /\ IF nMasters < 3
          THEN /\ OpReturn("HA needs three masters")
               /\ UNCHANGED oNode
          ELSE /\ oPc' = "hanode"
               /\ oNode' = 1
               /\ UNCHANGED oResult
    /\ UNCHANGED <<oOp, oStage, oJoin, oCalls, clusterVars, deployVars>>

\* SetupHA, one iteration of part_004:27-35 over the masters in list order:
\* setupHAOnNode (part_004:43-113) connects, installs keepalived and
\* haproxy, writes the two configurations and restarts the services; the
\* first error is returned
setupHAOnNode ==
    /\ NodeOpsFrame
    /\ oPc = "hanode"
    /\ \E failAt \in {"none", "connect", "install", "haproxy", "keepalived", "start"},
          changed \in BOOLEAN :
          /\ failAt = "connect" => ~changed
          /\ failAt \notin {"connect", "install"} => changed
          /\ mutated' = IF changed THEN mutated \cup {oNode} ELSE mutated
          /\ IF failAt = "connect" THEN OpReturn("SSH connection failed") /\ UNCHANGED oNode
             ELSE IF failAt # "none" THEN OpReturn("HA setup failed") /\ UNCHANGED oNode
             ELSE NextNodeOrReturn(nMasters)
    /\ UNCHANGED <<oOp, oStage, oJoin, oCalls, clusterVars, dPc, dFleet, phase, adminConf,
                   kubeletConf, dCred, dTasks, client, dGpuState, dEndpoints, dResult>>

NodeOpsNext ==
    \/ OpCall
    \/ NodePrepareConnect
    \/ NodePrepareStage
    \/ AddNodeJoinInfo
    \/ AddNodeJoin
    \/ AddNodeLabel
    \/ RemoveNode
    \/ UninstallMetalLB
    \/ SetupHostsFile
    \/ updateRemoteHostsFile
    \/ SetupSSHKeys
    \/ setupNodeSSHKey
    \/ SetupHA
    \/ setupHAOnNode

InitRetrySpec ==
    IdleRetry /\ IdleCluster /\ IdleUpdate /\ IdlePrep /\ IdleDeploy /\ IdleCilium /\ IdleStore
    /\ IdleConnect /\ IdleHost /\ IdleOps

SpecRetry == InitRetrySpec /\ [][RetryNext]_vars

InitUpdateSpec ==
    InitUpdate /\ IdleRetry /\ IdlePrep /\ IdleDeploy /\ IdleCilium /\ IdleStore
    /\ IdleConnect /\ IdleHost /\ IdleOps

SpecUpdate == InitUpdateSpec /\ [][UpdateNext]_vars

InitPrepSpec ==
    InitPrep /\ IdleRetry /\ IdleCluster /\ IdleUpdate /\ IdleDeploy /\ IdleCilium /\ IdleStore
    /\ IdleConnect /\ IdleHost /\ IdleOps

SpecPrepare == InitPrepSpec /\ [][PrepNext]_vars

\* the goroutines are scheduled and their remote work returns
SpecPrepareFair == SpecPrepare /\ WF_vars(PrepNext)

InitDeploySpec ==
    InitDeploy /\ IdleCluster /\ IdleRetry /\ IdleUpdate /\ IdlePrep /\ IdleCilium /\ IdleStore
    /\ IdleConnect /\ IdleHost /\ IdleOps

SpecDeploy == InitDeploySpec /\ [][DeployNext]_vars

InitCiliumSpec ==
    InitCilium /\ IdleRetry /\ IdleCluster /\ IdleUpdate /\ IdlePrep /\ IdleDeploy /\ IdleStore
    /\ IdleConnect /\ IdleHost /\ IdleOps

SpecCilium == InitCiliumSpec /\ [][CiliumNext]_vars

\* every query returns and the loop goes on
SpecCiliumFair == SpecCilium /\ WF_vars(CiliumNext)

InitStoreSpec ==
    InitStore /\ IdleCluster /\ IdleRetry /\ IdleUpdate /\ IdlePrep /\ IdleDeploy /\ IdleCilium
    /\ IdleConnect /\ IdleHost /\ IdleOps

SpecStore == InitStoreSpec /\ [][StoreNext]_vars

InitConnectSpec ==
    InitConnect /\ IdleCluster /\ IdleRetry /\ IdleUpdate /\ IdlePrep /\ IdleDeploy
    /\ IdleCilium /\ IdleStore /\ IdleHost /\ IdleOps

SpecConnect == InitConnectSpec /\ [][ConnectNext]_vars

InitHostSpec ==
    InitHost /\ IdleCluster /\ IdleRetry /\ IdleUpdate /\ IdlePrep /\ IdleDeploy
    /\ IdleCilium /\ IdleStore /\ IdleConnect /\ IdleOps

SpecHost == InitHostSpec /\ [][HostNext]_vars

InitNodeOpsSpec ==
    InitNodeOps /\ IdleRetry /\ IdleUpdate /\ IdlePrep /\ IdleCilium /\ IdleStore
    /\ IdleConnect /\ IdleHost

SpecNodeOps == InitNodeOpsSpec /\ [][NodeOpsNext]_vars

(***************************************************************************)
(* Claims about UpdateCluster (SpecUpdate).                                *)
(***************************************************************************)
UpdFailed == uPc = "done" /\ uResult # "ok"

\* the persisted record and the new spec differ in an immutable field
ImmutableFieldChanged ==
    record # NoCfg /\ ValidateImmutableFields(record, newCfg) # <<>>

\* C1: in every UpdateCluster run whose new spec differs from the persisted
\* spec in cluster name, pod CIDR, service CIDR or version, no apply routine
\* and no write of the persisted record is executed, and the run returns an
\* error.
C1_ImmutableChangeAborts ==
    ImmutableFieldChanged =>
        /\ uLog = <<>>
        /\ uPc = "done" => uResult # "ok"

\* C2: when the ownership check failed, UpdateCluster executes no
\* state-changing command on the cluster and returns an error.
C2_OwnershipFailureAborts ==
    ownerOk = "no" =>
        /\ uLog = <<>>
        /\ uPc \in {"validate", "done"}
        /\ uPc = "done" => uResult # "ok"

\* C3 as stated: the ownership check succeeds only if every node of the
\* cluster carries the management marker.
C3_OwnedOnlyIfEveryNodeMarked ==
    ownerOk = "yes" => labelled = ClusterNodes

\* C3 as amended: the ownership check succeeds only if at least one node of
\* the cluster carries the management marker; when no node carries it, the
\* check fails.
C3_OwnedOnlyIfSomeNodeMarked ==
    /\ ownerOk = "yes" => labelled # {}
    /\ (ownerOk # "unknown" /\ labelled = {}) => ownerOk = "no"

\* the check passed on a cluster where a node lacks the marker
C3_Witness ==
    /\ ownerOk = "yes"
    /\ labelled # {}
    /\ labelled # ClusterNodes

(***************************************************************************)
(* Claims about ExecuteWithRetry (SpecRetry).                              *)
(***************************************************************************)
\* C5: for retries >= 1, a command whose executions all failed with a
\* non-connection error (a plain nonzero exit) is executed exactly once.
C5_NonConnectionFailureNotRetried ==
    (retries >= 1 /\ plainFailures >= 1 /\ otherFailures = 0) => execCount = 1

\* C6: ExecuteWithRetry(command, n) executes the command at most n times.
C6_AtMostRetriesExecutions ==
    execCount <= retries

(***************************************************************************)
(* Claims about the fan-out batches (SpecPrepare).                         *)
(***************************************************************************)
FailedNodes == {i \in PrepNodes : pTask[i].status = "failed"}

\* exactly one node failed, at installK8sComponents
OneFailureAtStage3 ==
    /\ Cardinality(FailedNodes) = 1
    /\ \A i \in FailedNodes : pTask[i].stage = 3

IsPrefix(a, b) == Len(a) <= Len(b) /\ \A k \in 1..Len(a) : a[k] = b[k]

\* C10: prepareAllNodes returns only after every task finished; when exactly
\* one node failed at stage 3 of its pipeline, every other node ran its whole
\* pipeline, the returned error names the failed node, and the only commands
\* executed on any node are stages of the pipeline (no undo).
C10_OneFailureLeavesSiblingsAlone ==
    (pOp = "prepareAllNodes" /\ pPc = "returned") =>
        /\ \A i \in PrepNodes : TaskFinished(pTask[i])
        /\ OneFailureAtStage3 =>
              /\ \A i \in PrepNodes \ FailedNodes :
                    /\ pTask[i].status = "done"
                    /\ pCmds[i] = FullPipeline(pGpu[i])
              /\ pErr \in FailedNodes
              /\ \A i \in PrepNodes : IsPrefix(pCmds[i], FullPipeline(pGpu[i]))

\* three nodes were provisioned, one failed at stage 3 and the batch returned
C10_Witness ==
    /\ pOp = "prepareAllNodes"
    /\ pPc = "returned"
    /\ Len(pGpu) >= 3
    /\ OneFailureAtStage3
    /\ \E i \in PrepNodes \ FailedNodes : pGpu[i]

(***************************************************************************)
(* Claims about DeployCluster (SpecDeploy).                                *)
(***************************************************************************)
\* C4: when the first master carries the control-plane marker and the
\* operator declines the strong confirmation, no state-changing command was
\* executed on any node of the fleet in that run, and the run ends with the
\* user-cancelled error.
C4_DeclinedRerunTouchesNothing ==
    (dPc = "done" /\ phase["probe"] = "declined") =>
        /\ mutated = {}
        /\ dResult = "user cancelled"

PhaseStarted(p) == phase[p] # "none"

PhaseCompleted(p) == phase[p] \in {"ok", "skipped", "warned"}

\* the phases of the bootstrap state machine, in its order
MachineOrder ==
    <<"init", "joinMasters", "cilium", "metallb", "joinWorkers", "gpu", "validate">>

\* a phase starts only after every earlier phase completed, so a failed
\* phase is the last one; joins happen inside their phase
DeployPhaseOrder ==
    /\ \A i, j \in 1..Len(MachineOrder) :
          (i < j /\ PhaseStarted(MachineOrder[j])) => PhaseCompleted(MachineOrder[i])
    /\ (\E m \in DOMAIN mState : mState[m] # "idle") => phase["init"] = "ok"
    /\ (\E w \in DOMAIN wState : wState[w] # "idle") =>
          /\ \A m \in DOMAIN mState : mState[m] = "joined"
          /\ phase["cilium"] = "ok"
          /\ phase["metallb"] \in {"ok", "skipped"}
    /\ PhaseStarted("gpu") => \A w \in DOMAIN wState : wState[w] = "done"

SuccessOnlyAfterValidation == dResult = "nil" => phase["validate"] = "ok"

\* C7: the phases of a run occur in the order of the state machine, a failed
\* required phase is the last phase of the run, and DeployCluster returns
\* success only after validation succeeded.
C7_PhasesInOrderAndSuccessValidated ==
    /\ DeployPhaseOrder
    /\ SuccessOnlyAfterValidation

CredentialFields == {"endpoint", "token", "caHash", "certKey"}

\* C8: at most one bootstrap token is created in a run, only after kubeadm
\* init succeeded; no join command is issued before the credential exists,
\* every master and worker join command carries the token and CA fingerprint
\* of that one credential, a run that succeeds created exactly one, and
\* neither the saved record nor the saved secret holds a credential field.
C8_OneCredentialUsedByAllJoins ==
    /\ tokensCreated <= 1
    /\ tokensCreated = 1 => phase["init"] = "ok"
    /\ joinInfo # NoJoin => (tokensCreated = 1 /\ joinInfo.token = 1)
    /\ joinsWith # {} => (joinInfo # NoJoin /\ phase["credential"] = "ok")
    /\ \A j \in joinsWith :
          /\ j.cmd.token = joinInfo.token
          /\ j.cmd.caHash = joinInfo.caHash
    /\ phase["validate"] = "ok" => tokensCreated = 1
    /\ DOMAIN record \cap CredentialFields = {}
    /\ DOMAIN secret \cap CredentialFields = {}

\* a run with other masters and workers joined them all, validated and saved
C8_Witness ==
    /\ dPc = "done"
    /\ dResult = "nil"
    /\ phase["save"] = "ok"
    /\ nMasters >= 2
    /\ nWorkers >= 1
    /\ Cardinality(joinsWith) = nMasters - 1 + nWorkers
    /\ secret # NoSecret

JoiningMasters == {m \in DOMAIN mState : mState[m] = "joining"}

\* C9: at most one master join is in progress; a master's join was attempted
\* only if every master before it joined, so a failed join is the last one;
\* while a master join is in progress no worker task has started, and worker
\* tasks start only after every master joined.
C9_MasterJoinsSequential ==
    /\ Cardinality(JoiningMasters) <= 1
    /\ \A m \in DOMAIN mState :
          mState[m] # "idle" => \A k \in DOMAIN mState : k < m => mState[k] = "joined"
    /\ JoiningMasters # {} => \A w \in DOMAIN wState : wState[w] = "idle"
    /\ (\E w \in DOMAIN wState : wState[w] # "idle") =>
          \A m \in DOMAIN mState : mState[m] = "joined"

\* the second other master is joining after the first one joined
C9_Witness ==
    /\ nMasters >= 3
    /\ mState[2] = "joined"
    /\ mState[3] = "joining"

(***************************************************************************)
(* Claims about the error of a fan-out batch (SpecPrepare).                *)
(***************************************************************************)
\* deploy.go:253, 263-268: the returned error is one task's error, whose
\* text holds the hostname of that task's node
NamedNodes(err) == IF err = 0 THEN {} ELSE {err}

\* C11: the error a fan-out batch returns names every node whose task
\* failed and no node whose task succeeded.
C11_ErrorNamesEveryFailedNode ==
    pPc = "returned" => NamedNodes(pErr) = FailedNodes

(***************************************************************************)
(* Claims about joinWorkers (SpecDeploy).                                  *)
(***************************************************************************)
Has(log, c) == \E k \in 1..Len(log) : log[k] = c

Joined(log) == Has(log, "join:ok") \/ Has(log, "join:failed")

\* the command logs of a worker task whose goroutine ended
FinishedWorkerLogs ==
    {<<>>, <<"probe:found", "reset:failed">>} \cup
    {<<"probe:clean", j>> : j \in {"join:ok", "join:failed"}} \cup
    {<<"probe:found", "reset:ok", j>> : j \in {"join:ok", "join:failed"}}

\* C12: on every worker the join command comes after the probe; when the
\* probe found a prior membership, a successful reset stands between probe
\* and join; a failed reset is the last command on that worker, which then
\* counts as failed; and when joinWorkers has returned, every worker's task
\* ran to its own end whatever happened to the others.
C12_JoinOnlyAfterProbeAndReset ==
    \A w \in DOMAIN wLog :
        /\ \E f \in FinishedWorkerLogs : IsPrefix(wLog[w], f)
        /\ Joined(wLog[w]) => Has(SubSeq(wLog[w], 1, 1), "probe:found")
                                 \/ Has(SubSeq(wLog[w], 1, 1), "probe:clean")
        /\ (Has(wLog[w], "probe:found") /\ Joined(wLog[w])) =>
              SubSeq(wLog[w], 1, 2) = <<"probe:found", "reset:ok">>
        /\ Has(wLog[w], "reset:failed") =>
              (~Joined(wLog[w]) /\ wState[w] = "failed")
        /\ phase["joinWorkers"] \in {"ok", "failed"} =>
              (WorkerFinished(wState[w]) /\ wLog[w] \in FinishedWorkerLogs)

\* joinWorkers returned: one worker's reset failed and another worker, which
\* also had a prior membership, was reset and joined
C12_Witness ==
    /\ phase["joinWorkers"] = "failed"
    /\ \E w, v \in DOMAIN wLog :
          /\ wLog[w] = <<"probe:found", "reset:failed">>
          /\ wLog[v] = <<"probe:found", "reset:ok", "join:ok">>

\* C13: during credential issuance the certificate bundle is exported if and
\* only if the spec has a master besides the first; with a single master no
\* export is executed and issuance cannot fail on the certificate key.
C13_CertsExportedIffOtherMasters ==
    /\ certUploads > 0 => nMasters >= 2
    /\ (phase["credential"] = "ok" /\ nMasters >= 2) => certUploads > 0
    /\ (nMasters = 1 /\ tokensCreated = 1 /\ phase["credential"] = "failed") =>
          certUploads = 0

(***************************************************************************)
(* Claims about verifyCilium (SpecCilium).                                 *)
(***************************************************************************)
\* C14: verifyCilium returns success only if the node-agent DaemonSet was
\* observed fully ready (ready equal to desired, and nonzero) and kube-proxy
\* was observed absent.
C14_SuccessOnlyIfFullyReadyAndNoProxy ==
    (vPc = "verified" /\ vResult = "nil") =>
        /\ vObs.ok
        /\ vObs.ready = vObs.desired
        /\ vObs.ready > 0
        /\ vProxy = "not found"

(***************************************************************************)
(* Claims about the best-effort phases of DeployCluster (SpecDeploy).      *)
(***************************************************************************)
BestEffortPhases == {"gateway", "gpu", "save"}

PhaseIndex(p) == CHOOSE i \in 1..Len(DeployPhases) : DeployPhases[i] = p

\* C15: a failure in GPU tagging, in the final save or in the default
\* gateway deployment only warns: when a run that had such a warning ended
\* with an error, a later phase had started and failed; and the tagging loop
\* calls LabelGPUNode for every GPU node, whichever of them failed.
C15_BestEffortFailureOnlyWarns ==
    /\ \A p \in BestEffortPhases :
          (phase[p] = "warned" /\ dPc = "done" /\ dResult # "nil") =>
              \E q \in PhaseNames :
                  PhaseIndex(q) > PhaseIndex(p) /\ phase[q] = "failed"
    /\ \A p \in BestEffortPhases : phase[p] # "failed"
    /\ PhaseStarted("gpu") => gpuTried = dGpu

\* a run returned nil although the gateway, the tagging of the first of two
\* GPU nodes and the save had failed; the second GPU node was tagged
C15_Witness ==
    /\ dPc = "done"
    /\ dResult = "nil"
    /\ phase["gateway"] = "warned"
    /\ phase["gpu"] = "warned"
    /\ phase["save"] = "warned"
    /\ \E a, b \in dGpu : a < b /\ a \notin gpuLabelled /\ b \in gpuLabelled

\* C16: on a re-run no join command runs on a master that still holds the
\* kubelet.conf of the earlier run: the master-join phase finds the prior
\* membership and clears it before it joins the node.
C16_MasterJoinClearsPriorState ==
    \A m \in getOtherMasters : mState[m] = "joining" => m \notin kubeletConf

(***************************************************************************)
(* Claims about the confirmation and the record of UpdateCluster           *)
(* (SpecUpdate).                                                           *)
(***************************************************************************)
\* C17: without autoConfirm no command of the apply and no write of the
\* record runs unless the confirmation was answered yes; a refusal ends the
\* run with nil, and the step that takes the refusal leaves the cluster and
\* its record as they were.
C17_NoChangeWithoutConfirmation ==
    /\ []((~autoConfirm /\ answer # "yes") => (uLog = <<>> /\ applyCalls = 0))
    /\ [](answer = "no" => (uPc = "done" /\ uResult = "ok"))
    /\ [][(~autoConfirm /\ answer' # "yes") => UNCHANGED clusterVars]_vars

\* a run without autoConfirm had changes to apply, was refused and returned nil
C17_Witness ==
    /\ ~autoConfirm
    /\ answer = "no"
    /\ changes # <<>>
    /\ uPc = "done"
    /\ uResult = "ok"
    /\ uLog = <<>>

\* C18: the record is only written by the last step of a run whose apply
\* returned nil (after an affirmative or skipped confirmation, with changes
\* found); a run that returned an error, was refused or found no change left
\* it as it was; and the run returns nil whether or not that write worked.
C18_RecordWrittenOnlyAfterApply ==
    /\ [][record' # record =>
             /\ uPc = "save"
             /\ updateErr = "nil"
             /\ changes # <<>>
             /\ (autoConfirm \/ answer = "yes")
             /\ record' = Sanitize(newCfg)]_vars
    /\ []((uPc = "done" /\ updateErr # "nil") => ~Has(uLog, "kubectl patch configmap"))
    /\ []((uPc = "done" /\ updateErr = "nil") => uResult = "ok")

\* the apply returned nil, the write of the record failed, the run returned nil
C18_Witness ==
    /\ uPc = "done"
    /\ updateErr = "nil"
    /\ uResult = "ok"
    /\ Has(uLog, "write patch file")
    /\ ~Has(uLog, "kubectl patch configmap")
    /\ record # Sanitize(newCfg)

(***************************************************************************)
(* Claims about the persisted record (SpecStore).                          *)
(***************************************************************************)
NoSecrets(rec) ==
    /\ rec.harborUser = ""
    /\ rec.harborPass = ""
    /\ \A i \in DOMAIN rec.sshPasswords : rec.sshPasswords[i] = ""

\* the two specs agree in every field but the registry credentials and the
\* SSH passwords of the nodes
SameButSecrets(a, b) ==
    [a EXCEPT !.harborUser = b.harborUser, !.harborPass = b.harborPass,
              !.sshPasswords = b.sshPasswords] = b

\* C19: the record written by saveConfigToConfigMap or by
\* UpdateClusterConfigMap holds no registry user, no registry password and no
\* SSH password of a node, and either writer writes the same record for any
\* spec that differs from the written one in those secrets only.
C19_RecordHoldsNoSecret ==
    sPc = "written" =>
        /\ NoSecrets(record)
        /\ \A c \in StoreCfgs : SameButSecrets(sCfg, c) =>
              /\ saveConfigToConfigMap(c, TRUE, NoCfg) = record
              /\ UpdateClusterConfigMap(c, "patched", NoCfg) = record

\* a spec with registry credentials and a node SSH password was written, and
\* a spec without them exists that differs in nothing else
C19_Witness ==
    /\ sPc = "written"
    /\ sWriter = "UpdateClusterConfigMap"
    /\ sCfg.harborPass # ""
    /\ \E i \in DOMAIN sCfg.sshPasswords : sCfg.sshPasswords[i] # ""
    /\ \E c \in StoreCfgs : c # sCfg /\ SameButSecrets(sCfg, c)

(***************************************************************************)
(* Claims about config.ValidateImmutableFields, as UpdateCluster calls it  *)
(* on the loaded and the new spec (SpecUpdate).                            *)
(***************************************************************************)
\* the immutable fields in which the two specs differ
DifferingFields(old, new) ==
       (IF old.name # new.name THEN {"metadata.name"} ELSE {})
    \cup (IF old.podSubnet # new.podSubnet THEN {"spec.networking.podSubnet"} ELSE {})
    \cup (IF old.serviceSubnet # new.serviceSubnet
             THEN {"spec.networking.serviceSubnet"} ELSE {})
    \cup (IF old.version # new.version THEN {"spec.version"} ELSE {})

Validated == oldCfg # NoCfg /\ uPc \notin {"verify", "load", "validate"}

\* C20: ValidateImmutableFields(old, new) returns nil exactly when old and new
\* agree on name, pod subnet, service subnet and version; otherwise its one
\* error lists each differing field once and no field that agrees.
C20_OneEntryPerDifferingField ==
    Validated =>
        LET e == ValidateImmutableFields(oldCfg, newCfg)
            d == DifferingFields(oldCfg, newCfg)
        IN  /\ (e = <<>>) <=> (d = {})
            /\ {e[i] : i \in 1..Len(e)} = d
            /\ Len(e) = Cardinality(d)
            /\ (uResult = "error: immutable fields") <=> (d # {})

\* the validation refused a spec that changes the pod subnet and the service
\* subnet and keeps the name and the version
C20_Witness ==
    /\ Validated
    /\ uPc = "done"
    /\ uResult = "error: immutable fields"
    /\ DifferingFields(oldCfg, newCfg) =
          {"spec.networking.podSubnet", "spec.networking.serviceSubnet"}
    /\ Len(ValidateImmutableFields(oldCfg, newCfg)) = 2

(***************************************************************************)
(* Claims about the diff of UpdateCluster (SpecUpdate).                    *)
(***************************************************************************)
\* detectBGPChanges or detectAllChanges has run on a loaded spec
Detected ==
    /\ oldCfg # NoCfg
    /\ uPc \in {"confirm", "apply", "save"} \/ (uPc = "done" /\ uResult = "ok")

\* the BGP aspects in which two specs can differ
BGPAspectsDiffer(old, new) ==
    \/ old.bgpEnabled # new.bgpEnabled
    \/ old.localASN # new.localASN
    \/ Len(old.peers) # Len(new.peers)
    \/ Len(old.lbIPs) # Len(new.lbIPs)

\* C21: detectBGPChanges(old, new) returns at least one ConfigChange whenever
\* old and new differ in the enabled flag (off to on, on to off), the local
\* ASN, the number of peers or the number of load-balancer IP pool entries.
C21_EveryBGPDifferenceDetected ==
    (Detected /\ onlyBGP /\ BGPAspectsDiffer(oldCfg, newCfg)) =>
        /\ changes # <<>>
        /\ detectBGPChanges(oldCfg, newCfg) # <<>>

\* the two specs agree in every field but the BGP peer list, and the two
\* peer lists have different lengths
DifferOnlyInPeerCount(old, new) ==
    /\ [old EXCEPT !.peers = new.peers] = new
    /\ Len(old.peers) # Len(new.peers)

\* C22: for two specs that differ only in the length of the BGP peer list the
\* diff is exactly one ConfigChange of type BGP whose old and new values are
\* the two peer counts, and ValidateImmutableFields reports nothing.
C22_PeerCountChangeIsOneBGPChange ==
    (Detected /\ DifferOnlyInPeerCount(oldCfg, newCfg)) =>
        /\ Len(changes) = 1
        /\ changes[1].type = "BGP"
        /\ changes[1].oldValue = ToString(Len(oldCfg.peers))
        /\ changes[1].newValue = ToString(Len(newCfg.peers))
        /\ ValidateImmutableFields(oldCfg, newCfg) = <<>>

(***************************************************************************)
(* Claims about the apply step of UpdateCluster (SpecUpdate).              *)
(***************************************************************************)
\* changes were detected and none of them is of a type updateFull dispatches
OnlyUnroutedChanges ==
    /\ changes # <<>>
    /\ \A i \in 1..Len(changes) : changes[i].type # "BGP"

RecordWriteCommands == {"write patch file", "kubectl patch configmap"}

\* C23: in full mode, when the detected changes are all of a type without an
\* apply routine (registry credentials), the apply step runs no command on
\* the cluster and returns nil: nothing but the write of the record that
\* follows a successful apply is ever executed, and the run returns nil.
C23_UnroutedChangeAppliesNothing ==
    (~onlyBGP /\ OnlyUnroutedChanges) =>
        /\ applyCalls = 0
        /\ updateErr # "error"
        /\ uPc \in {"confirm", "apply", "save"} => uLog = <<>>
        /\ \A k \in 1..Len(uLog) : uLog[k] \in RecordWriteCommands
        /\ uPc = "done" => uResult = "ok"

\* a full update whose one change is of type Harbor went through the whole
\* apply loop and the apply returned nil
C23_Witness ==
    /\ ~onlyBGP
    /\ OnlyUnroutedChanges
    /\ changes[1].type = "Harbor"
    /\ applyIdx > Len(changes)
    /\ updateErr = "nil"
    /\ uPc = "done"

\* C24: an only-BGP update of a spec with BGP enabled and an IP pool can
\* apply with success, whether the load-balancer release is installed on
\* the cluster or not: at the apply step some outcome of the environment
\* makes updateBGPOnly return nil.
C24_OnlyBGPApplyCanSucceed ==
    (uPc = "apply" /\ onlyBGP /\ newCfg.bgpEnabled /\ Len(newCfg.lbIPs) > 0) =>
        ENABLED (UpdApplyBGPOnly /\ updateErr' = "nil")

(***************************************************************************)
(* Claims about the load-balancer phase of DeployCluster (SpecDeploy).     *)
(***************************************************************************)
\* C25: once the load-balancer phase of the bootstrap is over without an
\* error, the addon is installed if and only if the spec enables BGP or asks
\* for the L2 mode, whatever the other load-balancer settings are.
C25_AddonInstalledIffBGPOrL2 ==
    phase["metallb"] \in {"ok", "skipped"} =>
        (mlbRelease <=> (dCfg.bgpEnabled \/ dCfg.lbMode = "l2"))

(***************************************************************************)
(* Claims about the constructors of SSHClient (SpecConnect).               *)
(***************************************************************************)
\* the place of a strategy in the order the claim fixes
StrategyRank(st) ==
    CASE st = "root key" -> 1
      [] st = "user key" -> 2
      [] st = "user password" -> 3

SmartStrategies == {"root key", "user key", "user password"}

Connects(st) == SmartAttempt(st, cEnv, cArgs) = "client"

\* C26: NewSSHClientSmart dials in the order root with the managed key, the
\* given user with the given key, the given user with the given password;
\* every attempt before the last one failed; it returns the client of the
\* first applicable strategy that connects and stops there; it returns an
\* error only when every applicable strategy was tried and failed.
C26_SmartTriesInOrderUntilFirstSuccess ==
    cCtor = "NewSSHClientSmart" =>
        /\ \A i, j \in 1..Len(cTried) :
              i < j => StrategyRank(cTried[i]) < StrategyRank(cTried[j])
        /\ \A i \in 1..(Len(cTried) - 1) : ~Connects(cTried[i])
        /\ cResult = "client" =>
              /\ cPc = "done"
              /\ cTried # <<>>
              /\ Connects(cTried[Len(cTried)])
              /\ \A st \in SmartStrategies :
                    (StrategyRank(st) < StrategyRank(cTried[Len(cTried)])
                        /\ SmartApplies(st, cArgs)) => ~Connects(st)
        /\ (cPc = "done" /\ cResult # "client") =>
              \A st \in SmartStrategies :
                  SmartApplies(st, cArgs) =>
                      /\ \E i \in 1..Len(cTried) : cTried[i] = st
                      /\ ~Connects(st)

\* the root key and the user's key were refused and the password connected
C26_Witness ==
    /\ cCtor = "NewSSHClientSmart"
    /\ cTried = <<"root key", "user key", "user password">>
    /\ cResult = "client"
    /\ cPc = "done"

\* the key file given to the call cannot be read or parsed, or the host
\* refuses it for the user of the call
SuppliedKeyInvalid ==
    /\ cArgs.keyFile # ""
    /\ \/ cEnv.file[cArgs.keyFile] # "usable"
       \/ <<cArgs.user, cArgs.keyFile>> \notin cEnv.accepted

\* C27: a constructor called with an invalid key and a password the host
\* accepts returns a client and no error, NewSSHClientWithPassword as well as
\* NewSSHClientSmart.
C27_InvalidKeyValidPasswordConnects ==
    (cPc = "done" /\ SuppliedKeyInvalid /\ cArgs.password # ""
     /\ cArgs.user \in cEnv.passwordUsers) =>
        cResult = "client"

(***************************************************************************)
(* Claims about the SSH client of DeployCluster (SpecDeploy).              *)
(***************************************************************************)
\* C28: a run of DeployCluster never crashes, and when the SSH client to the
\* first master could not be opened the run has ended with an error value:
\* no phase goes on with a nil client.
C28_FailureReturnsErrorNeverCrashes ==
    /\ dResult # "panic"
    /\ client = "nil" => (dPc = "done" /\ dResult \notin {"nil", "running"})

(***************************************************************************)
(* C29: for every validated spec, the control-plane endpoint of the init   *)
(* configuration, of the join credential and of the networking-plugin      *)
(* values is the first master's address when HA is disabled and the VIP    *)
(* when HA is enabled (the two kubeadm sites with the API port appended);  *)
(* and validation rejects every HA-enabled spec with fewer than 3 masters, *)
(* so no HA run has fewer.                                                 *)
(***************************************************************************)
EndpointHost == IF dCfg.haEnabled THEN haVIP ELSE firstMasterIP

C29_EndpointIsFirstMasterOrVIP ==
    /\ initEndpoint # "" => initEndpoint = WithAPIPort(EndpointHost)
    /\ joinInfo # NoJoin => joinInfo.endpoint = WithAPIPort(EndpointHost)
    /\ k8sServiceHost # "" => k8sServiceHost = EndpointHost
    /\ dCfg.haEnabled => (nMasters >= 3 /\ ParsesAsIP(haVIP))
    /\ \A vip \in VIPs, n \in 0..MaxMasters :
          n < 3 => validateHA(TRUE, vip, n) # "nil"

\* an HA run that generated all three with the VIP
C29_Witness ==
    /\ dCfg.haEnabled
    /\ initEndpoint = "10.0.0.100:6443"
    /\ joinInfo # NoJoin
    /\ joinInfo.endpoint = "10.0.0.100:6443"
    /\ k8sServiceHost = "10.0.0.100"

(***************************************************************************)
(* C31: LoadFromFile accepts an otherwise valid spec whose nodes omit the  *)
(* hostname and returns it with a derived hostname on each such node; it   *)
(* does not reject the spec because of the missing hostname.               *)
(***************************************************************************)
\* the same list with a distinct placeholder written where the hostname is
\* omitted
WithHostnames(nodes) ==
    [i \in 1..Len(nodes) |->
        IF nodes[i].hostname = ""
           THEN [nodes[i] EXCEPT !.hostname = "placeholder-" \o DecimalString(i)]
           ELSE nodes[i]]

OmitsHostname(nodes) == \E i \in 1..Len(nodes) : nodes[i].hostname = ""

\* valid but for the omitted hostnames
OtherwiseValid(nodes) == validateNodes(WithHostnames(nodes)) = "nil"

C31_OmittedHostnameAcceptedAndDerived ==
    (hEntry = "LoadFromFile" /\ OtherwiseValid(hIn) /\ OmitsHostname(hIn))
       => /\ hPc # "rejected"
          /\ hPc = "returned" => \A i \in 1..Len(hIn) : hNodes[i].hostname # ""

(***************************************************************************)
(* C32: for a spec with 1 master, 2 workers, HA disabled, BGP disabled and *)
(* no L2 load-balancer mode, where the operator confirms every prompt and  *)
(* every remote command succeeds, DeployCluster reaches Done having        *)
(* performed exactly 1 master init, 0 master joins, 2 worker joins that    *)
(* run as concurrent tasks, and exactly 1 networking-addon install whose   *)
(* values have BGP disabled; no load-balancer addon install is performed.  *)
(* The claim has it for every spec with BGP disabled, confirmed or not.    *)
(***************************************************************************)
SmallFleet == nMasters = 1 /\ nWorkers = 2 /\ ~dCfg.haEnabled /\ ~dCfg.bgpEnabled

\* no prompt was answered with no (deploy.go:40, 383)
OperatorConfirmed == \A p \in PhaseNames : phase[p] # "declined"

\* no connection and no command of the run failed: a phase fails or warns
\* on a failed connection or command only, but for the load-balancer phase,
\* which also fails on an empty address-pool list with no command run
EveryCommandSucceeded ==
    \A p \in PhaseNames :
       phase[p] \in {"failed", "warned"} =>
          (p = "metallb" /\ dResult = "MetalLB install failed: LoadBalancerIPs empty")

\* DeployCluster returned nil after its last phase
ReachedDone ==
    /\ dPc = "done"
    /\ dResult = "nil"
    /\ client = "open"
    /\ \A p \in PhaseNames : phase[p] \in {"ok", "skipped"}

MasterJoins == {j \in joinsWith : j.cmd.controlPlane}
WorkerJoins == {j \in joinsWith : ~j.cmd.controlPlane}

\* the join commands worker w executed
JoinsIn(log) == {k \in 1..Len(log) : log[k] \in {"join:ok", "join:failed"}}

SmallFleetCounts ==
    /\ phase["init"] = "ok"
    /\ initEndpoint # ""
    /\ MasterJoins = {}
    /\ {j.node : j \in WorkerJoins} = getWorkers
    /\ Cardinality(WorkerJoins) = 2
    /\ \A w \in getWorkers : Cardinality(JoinsIn(wLog[w])) = 1
    /\ phase["cilium"] = "ok"
    /\ ciliumValues # NoValues
    /\ ciliumValues.BGPEnabled = FALSE

\* no worker task waits for another one: whatever the other task has done,
\* a task that has not returned can take its next step
WorkersConcurrent ==
    dPc = "workersWait" =>
       \A w \in getWorkers :
          /\ wState[w] = "new" => ENABLED DeployWorkerProbe(w)
          /\ wState[w] = "reset" => ENABLED DeployWorkerReset(w)
          /\ wState[w] = "ready" => ENABLED DeployWorkerJoin(w)

C32_SmallFleetRun ==
    (SmallFleet /\ dCfg.lbMode # "l2") =>
       /\ WorkersConcurrent
       /\ (dPc = "done" /\ OperatorConfirmed /\ EveryCommandSucceeded) =>
             (ReachedDone /\ SmallFleetCounts /\ ~mlbRelease)

\* such a run of a spec that names MetalLB as the provider, one of whose
\* workers had joined an earlier cluster and was reset before it joined
C32_Witness ==
    /\ SmallFleet
    /\ dCfg.lbMode # "l2"
    /\ dCfg.lbProvider = "metallb"
    /\ ReachedDone
    /\ ~mlbRelease
    /\ \E w \in getWorkers : wLog[w] = <<"probe:found", "reset:ok", "join:ok">>

\* the statement as claimed: every such run of a spec with BGP disabled
\* reaches Done with those counts and no load-balancer addon install
C32_SmallFleetRunNoLoadBalancer ==
    (SmallFleet /\ dPc = "done" /\ EveryCommandSucceeded) =>
       (ReachedDone /\ SmallFleetCounts /\ ~mlbRelease)

(***************************************************************************)
(* C33: in every load-balancer configuration run (BGP mode and L2 mode)    *)
(* the address-pool resource is applied before any BGP peer, BGP           *)
(* advertisement or L2 advertisement; when the address pool cannot be      *)
(* created (including an empty pool list), none of those resources is      *)
(* applied and the phase fails.                                            *)
(***************************************************************************)
PoolDependents == {"apply BGPPeer", "apply BGPAdvertisement", "apply L2Advertisement"}

\* the positions of the commands of S in a command list
PositionsOf(cmds, S) == {k \in 1..Len(cmds) : cmds[k] \in S}

PoolFirst(cmds) ==
    \A k \in PositionsOf(cmds, PoolDependents) :
       \E j \in 1..(k - 1) : cmds[j] = "apply IPAddressPool"

\* the pool list is empty or the apply of the pool is the command that fails
PoolNotCreated(cfg, failAt) == Len(cfg.lbIPs) = 0 \/ failAt = "pool"

ConfigurationRunOk(run, cfg, failAt) ==
    /\ PoolFirst(run.cmds)
    /\ PoolNotCreated(cfg, failAt) =>
          (run.err /\ PositionsOf(run.cmds, PoolDependents) = {})

\* the spec of the run in L2 mode
AsL2(cfg) == [cfg EXCEPT !.bgpEnabled = FALSE, !.lbMode = "l2"]

C33_PoolBeforePeersAndAdvertisements ==
    /\ PoolFirst(uLog)
    /\ \A failAt \in MetalLBFailPoints :
          /\ ConfigurationRunOk(ConfigureMetalLBBGP(newCfg, failAt), newCfg, failAt)
          /\ ConfigurationRunOk(configureMetalLBL2(AsL2(newCfg), failAt),
                                AsL2(newCfg), failAt)
          /\ failAt \notin {"helm", "wait"} =>
                ConfigurationRunOk(InstallMetalLB(AsL2(newCfg), FALSE, failAt),
                                   AsL2(newCfg), failAt)

\* an update that applied the pool, a peer and the advertisement
C33_Witness ==
    /\ PositionsOf(uLog, {"apply IPAddressPool"}) # {}
    /\ PositionsOf(uLog, {"apply BGPPeer"}) # {}
    /\ PositionsOf(uLog, {"apply BGPAdvertisement"}) # {}

(***************************************************************************)
(* C34: in each fan-out batch (checkSSHConnections, prepareAllNodes,       *)
(* joinWorkers) every task sends at most one error to the result channel,  *)
(* whose capacity equals the number of tasks, so no task ever blocks on    *)
(* the send; the channel is closed and drained only after every task       *)
(* finished; the batch always returns once every task's remote work has    *)
(* returned (no deadlock in any interleaving).                             *)
(***************************************************************************)
UnfinishedTasks == {i \in DOMAIN pTask : ~TaskFinished(pTask[i])}

\* the tasks whose error is in the channel
Senders == {errChan[j] : j \in 1..Len(errChan)}

\* each task has at most one error in the channel, and the tasks that have
\* one are those that failed
OneErrorPerTask ==
    /\ \A j, k \in 1..Len(errChan) : errChan[j] = errChan[k] => j = k
    /\ Senders = {i \in DOMAIN pTask : pTask[i].status = "failed"}

\* the channel holds as many errors as there are tasks, and there is room in
\* it for the error of every task still running
SendNeverBlocks ==
    /\ ErrChanCapacity(Len(pGpu)) = Len(pTask)
    /\ Len(errChan) + Cardinality(UnfinishedTasks) <= ErrChanCapacity(Len(pGpu))

\* a task that has not finished can take a step, whatever the other tasks did
NoTaskWaits ==
    \A i \in UnfinishedTasks :
       pTask[i].status # "unborn" =>
          CASE pOp = "checkSSHConnections" -> ENABLED SSHTaskTest(i)
            [] pOp = "prepareAllNodes" ->
                  ENABLED PrepTaskConnect(i) \/ ENABLED PrepTaskStage(i)
            [] pOp = "joinWorkers" ->
                  \/ ENABLED JoinTaskConnect(i) \/ ENABLED JoinTaskProbe(i)
                  \/ ENABLED JoinTaskReset(i) \/ ENABLED JoinTaskJoin(i)

C34_Safety ==
    /\ pOp \in FanOutBatches
    /\ OneErrorPerTask
    /\ SendNeverBlocks
    /\ NoTaskWaits
    /\ pPc = "returned" => AllTasksFinished(pTask)
    /\ pPc # "returned" => ENABLED PrepNext

C34_FanOutNeverBlocksAndReturns == []C34_Safety /\ <>(pPc = "returned")

\* a joinWorkers batch that returned after its three tasks each sent an
\* error, from the three send sites (connect, reset, join)
C34_Witness ==
    /\ pOp = "joinWorkers"
    /\ pPc = "returned"
    /\ Len(errChan) = 3
    /\ {pTask[i].stage : i \in DOMAIN pTask} = {0, 2, 3}

(***************************************************************************)
(* C35: every readiness poll terminates after its fixed attempt budget     *)
(* even if the awaited condition never becomes true: the node-agent        *)
(* DaemonSet poll ends after at most 60 probes with a timeout error that   *)
(* aborts bootstrap; the routing-class poll and the gateway-address poll   *)
(* each end after at most 12 probes and bootstrap continues with a         *)
(* warning.                                                                *)
(***************************************************************************)
C35_Budgets ==
    /\ probes.daemonset <= 60
    /\ probes.gwclass <= 12
    /\ probes.gwaddress <= 12
    /\ vResult = "DaemonSet not ready" =>
          (probes.daemonset = 60 /\ vPc \in {"verified", "done"}
           /\ (vPc = "done" => vInstall = "error"))
    /\ vWarning = "GatewayClass not ready" =>
          (probes.gwclass = 12 /\ vPc = "done" /\ vInstall = "nil")
    /\ vWarning = "Gateway has no address" =>
          (probes.gwaddress = 12 /\ vPc = "done" /\ vInstall = "nil")
    /\ (vPc = "done") <=> (vInstall # "running")

C35_PollsEndWithinBudget == []C35_Budgets /\ <>(vPc = "done")

\* the address poll ran out of attempts after the DaemonSet poll had used all
\* but its last one
C35_Witness ==
    /\ vWarning = "Gateway has no address"
    /\ probes.gwaddress = 12
    /\ probes.daemonset = 60
    /\ vInstall = "nil"

(***************************************************************************)
(* C36: each fan-out batch (checkSSHConnections, prepareAllNodes,          *)
(* joinWorkers) returns no error if and only if every node task succeeded; *)
(* when at least one task failed, it returns an error that was produced by *)
(* one of the failed tasks, in every interleaving of task completions.     *)
(***************************************************************************)
\* the task ran its work to the end with no error: the connection test
\* passed, the last stage of the pipeline or the join command succeeded
TaskSucceeded(i) ==
    /\ pTask[i].status = "done"
    /\ pCmds[i] # <<>>
    /\ pCmds[i][Len(pCmds[i])] =
          CASE pOp = "checkSSHConnections" -> "echo test"
            [] pOp = "prepareAllNodes" -> StageName(LastStage(pGpu[i]))
            [] pOp = "joinWorkers" -> JoinStageName(3)

C36_NilIffEveryTaskSucceeded ==
    (pOp \in FanOutBatches /\ pPc = "returned") =>
       /\ \A i \in PrepNodes : TaskSucceeded(i) \/ pTask[i].status = "failed"
       /\ (pErr = 0) <=> (\A i \in PrepNodes : TaskSucceeded(i))
       /\ pErr # 0 => (pErr \in PrepNodes /\ pTask[pErr].status = "failed")

\* a checkSSHConnections batch in which the test of the first node passed
\* and those of the two other nodes failed, the error of the last node
\* being sent first, returned the error of the last node
C36_Witness ==
    /\ pOp = "checkSSHConnections"
    /\ pPc = "returned"
    /\ Len(pGpu) = 3
    /\ TaskSucceeded(1)
    /\ errChan = <<3, 2>>
    /\ pErr = 3

(***************************************************************************)
(* C37: in full mode, one UpdateCluster run invokes the load-balancer      *)
(* apply routine (install and configuration of the addon) at most once,    *)
(* however many BGP ConfigChanges were detected.                           *)
(***************************************************************************)
C37_FullModeAppliesAtMostOnce == ~onlyBGP => applyCalls <= 1

(***************************************************************************)
(* C38: update is idempotent on the recorded state: after UpdateCluster    *)
(* with spec S returned success and wrote the persisted record, a second   *)
(* UpdateCluster with the same spec S loads a state against which it       *)
(* detects zero changes, in full mode and in only-BGP mode, including when *)
(* S changed the registry credentials.                                     *)
(***************************************************************************)
\* the run returned nil after its write of the record was applied
UpdateWroteRecord ==
    /\ uPc = "done"
    /\ uResult = "ok"
    /\ uLog # <<>>
    /\ uLog[Len(uLog)] = "kubectl patch configmap"
    /\ record = Sanitize(newCfg)

\* what the next run loads from the cluster this run left
LoadedByNextRun ==
    LoadClusterConfig(TRUE, "ok", AllSecretReadsOk, labelled, record, secret)

C38_SecondUpdateDetectsNothing ==
    (UpdateWroteRecord /\ LoadedByNextRun # NoCfg) =>
       /\ detectAllChanges(LoadedByNextRun, newCfg) = <<>>
       /\ detectBGPChanges(LoadedByNextRun, newCfg) = <<>>

(***************************************************************************)
(* C39: the identity, key and secret an SSHClient was created with survive *)
(* reconnects: whatever Reconnect calls succeeded before, also as root, a  *)
(* Reconnect whose root-key attempt fails goes on to dial the user the     *)
(* client was created with, with the key and then the password it was      *)
(* created with, as NewSSHClientSmart on the original arguments would.     *)
(***************************************************************************)
\* the last Reconnect dialled root with the managed key and was refused
ElevatedStrategyFailed ==
    /\ cReconn # "none"
    /\ cDials # <<>>
    /\ (Len(cDials) > 1 \/ cReconn = "error")

\* the dials NewSSHClientSmart makes after the root key with the arguments the
\* client was created with, when none of them connects
SuppliedFallback ==
    SelectSeq(<<"user key", "user password">>, LAMBDA st : SmartApplies(st, cArgs))

C39_ReconnectFallsBackToSuppliedCredentials ==
    ElevatedStrategyFailed =>
        LET expected == [i \in 1..Len(SuppliedFallback) |->
                            SmartDial(SuppliedFallback[i], cArgs)]
        IN  /\ IsPrefix(Tail(cDials), expected)
            /\ cReconn = "error" => Tail(cDials) = expected

(***************************************************************************)
(* C40: writing the sanitized spec leaves the caller's ClusterConfig as it *)
(* was: when saveConfigToConfigMap or UpdateClusterConfigMap has returned, *)
(* every node's SSH password and the registry credentials of the caller's  *)
(* config have the values they had before the call.                        *)
(***************************************************************************)
WriterReturned == sPc \in {"written", "failed"}

C40_WriterLeavesCallerConfigUnchanged ==
    WriterReturned =>
        /\ sAfter.harborUser = sCfg.harborUser
        /\ sAfter.harborPass = sCfg.harborPass
        /\ sAfter.sshPasswords = sCfg.sshPasswords

====
